---- MODULE Spec2Model ----
(***************************************************************************)
(* A model of the registry synchronisation core of Thegreatsura/v1:        *)
(*   - the install-size resolver   (src/unnamed/part_011)                  *)
(*   - the notification dispatcher (src/unnamed/part_012, db queries)      *)
(*   - the change-feed listener    (src/apps/worker/src/index.ts)          *)
(*   - the backfill orchestrator   (src/apps/worker/src/jobs/backfill)     *)
(*   - the in-memory LRU cache     (src/apps/api/src/lib/cache.ts)         *)
(* Each component has its own specification (SpecResolver, SpecDispatch,   *)
(* SpecListener, SpecBackfill, SpecCache); the variables of the other      *)
(* components stay at their initial values.                                *)
(***************************************************************************)
EXTENDS Integers, Sequences, FiniteSets, TLC

VARIABLES
  \* ---- install-size resolver ----
  reg,          \* the registry snapshot the run resolves against
  rootName,     \* getInstallSize's name argument
  rootArg,      \* getInstallSize's version argument (NoRange when omitted)
  rootVersion,  \* resolvedVersion of getInstallSize (a version string)
  rpc,          \* position of getInstallSize: "start", "tree", "done"
  tree,         \* locals of resolveDependencyTree: resolved, seen, nextLevel, packumentCache
  currentLevel, \* entries of the BFS level being fetched, in insertion order
  batchStart,   \* i of the batch loop (1-based)
  pending,      \* indices of the current batch whose fetch has not completed
  aborted,      \* controller.signal.aborted
  result,       \* what getInstallSize returned (NoResult until it returns)
  \* ---- notification dispatcher ----
  dbAvailable,  \* isDatabaseAvailable() && db
  prefsRow,     \* notification_preferences: user -> row, NoRow when the user has none
  slackUsers,   \* users with an enabled slack row in integration_connection
  notification, \* the notification table: a set of rows
  slackQueue,   \* jobs of the slack delivery queue
  emailQueue,   \* jobs of the email delivery queue
  disp,         \* per dispatcher call in flight: its locals and position
  dispatched,   \* number of dispatchNotifications calls made so far
  update,       \* the enrichment of the update being dispatched: severity, isSecurityUpdate
  \* ---- change-feed listener ----
  feed,         \* the changes upstream has emitted since the listener started, in order
  lpc,          \* position of runChangesListener
  cursor,       \* seq of the last change the open stream has yielded
  retries,      \* retries of runChangesListener
  delay,        \* the backoff delay computed last, in ms
  change,       \* the change whose queuePackageSync is awaited
  changeJobs,   \* the changes for which queuePackageSync returned
  startSeq,     \* seq after which the listener's first stream began (NoSeq before)
  failures,     \* failed attempts since the last received change
  errPasses,    \* passes of the listener's loop in a row that ended in its catch block
  \* ---- backfill orchestrator ----
  registry,     \* the registry's listing: number of rows, runs of design documents
  bstate,       \* the BackfillState row and the stored package list
  syncQueue,    \* the names queueBulkSync has enqueued
  start,        \* per startBackfillProcess caller: position, listing locals, result
  ctl,          \* position of a resumeBackfillProcess or resetBackfillProcess call
  tickQueue,    \* the backfill queue's tick jobs
  tick,         \* position and locals of the processBackfillTick that is executing
  sched,        \* scheduleNextTick calls in flight: before the read, before the add
  startup,      \* position of createBackfillWorker's checkAndScheduleBackfill
  opCalls,      \* number of operator calls made so far
  startOk,      \* startBackfillProcess has returned and no operator call followed
  tickFailed,   \* a tick threw while status was running; no operator call or tick since
  checkAdded,   \* number of ticks added by checkAndScheduleBackfill
  atPause,      \* <<offset, total>> at the last pause, while no other call followed it
  \* ---- in-memory LRU cache ----
  lruCache,     \* the Map of the LRUCache instance: its entries in insertion order
  now,          \* Date.now(), in ms
  used          \* the keys of the Map, the least recently used (got or set) first

resolverVars ==
  <<reg, rootName, rootArg, rootVersion, rpc, tree, currentLevel, batchStart,
    pending, aborted, result>>

dispatchVars ==
  <<dbAvailable, prefsRow, slackUsers, notification, slackQueue, emailQueue, disp,
    dispatched, update>>

listenerVars ==
  <<feed, lpc, cursor, retries, delay, change, changeJobs, startSeq, failures, errPasses>>

backfillVars ==
  <<registry, bstate, syncQueue, start, ctl, tickQueue, tick, sched, startup, opCalls,
    startOk, tickFailed, checkAdded, atPause>>

cacheVars == <<lruCache, now, used>>

vars == <<resolverVars, dispatchVars, listenerVars, backfillVars, cacheVars>>

otherThanResolver == <<dispatchVars, listenerVars, backfillVars, cacheVars>>
otherThanDispatch == <<resolverVars, listenerVars, backfillVars, cacheVars>>
otherThanListener == <<resolverVars, dispatchVars, backfillVars, cacheVars>>
otherThanBackfill == <<resolverVars, dispatchVars, listenerVars, cacheVars>>
otherThanCache == <<resolverVars, dispatchVars, listenerVars, backfillVars>>

(***************************************************************************)
(* Strings of the resolver.  A version is a triple <<major, minor, patch>>; *)
(* a range string is a record naming its shape:                             *)
(*   ver    "1.2.0"            caret  "^1.0.0"        tag   "latest"        *)
(*   npm    "npm:target@inner" (inner = NoRange: "npm:target")              *)
(*   url    "https://...", "git+ssh://...", "file:...", "a/b"               *)
(***************************************************************************)
NoRange == [kind |-> "none"]
Ver(v) == [kind |-> "ver", v |-> v]
Caret(v) == [kind |-> "caret", v |-> v]
Tag(t) == [kind |-> "tag", t |-> t]
Npm(target, inner) == [kind |-> "npm", target |-> target, inner |-> inner]
Url(u) == [kind |-> "url", u |-> u]

\* a packument version entry; hasSize = FALSE models a missing dist.unpackedSize
PV(v, size, deps, optDeps, os, cpu, libc) ==
  [version |-> v, hasSize |-> TRUE, size |-> size, dependencies |-> deps,
   optionalDependencies |-> optDeps, os |-> os, cpu |-> cpu, libc |-> libc]
V(v, size, deps) == PV(v, size, deps, <<>>, <<>>, <<>>, <<>>)
NoPackument == [ok |-> FALSE]
Packument(latest, versions) == [ok |-> TRUE, latest |-> latest, versions |-> versions]

(***************************************************************************)
(* Program constants of the resolver.                                      *)
(***************************************************************************)
MAX_PACKAGES == 500
batchSize == 20

NoVersion == <<>>

\* semver precedence on <<major, minor, patch>>
VersionLess(v, w) ==
  \/ v[1] < w[1]
  \/ v[1] = w[1] /\ v[2] < w[2]
  \/ v[1] = w[1] /\ v[2] = w[2] /\ v[3] < w[3]

\* semver's satisfies(): an exact version, or a caret range of major >= 1
Satisfies(v, range) ==
  CASE range.kind = "ver" -> v = range.v
    [] range.kind = "caret" -> v[1] = range.v[1] /\ ~VersionLess(v, range.v)
    [] OTHER -> FALSE

SeqToSet(s) == {s[k] : k \in 1..Len(s)}

\* semver's maxSatisfying(versions, range) ?? null
maxSatisfying(versions, range) ==
  LET sat == {v \in SeqToSet(versions) : Satisfies(v, range)}
  IN IF sat = {} THEN NoVersion
     ELSE CHOOSE v \in sat : \A w \in sat : ~VersionLess(v, w)

RECURSIVE resolveVersion(_, _)
resolveVersion(range, versions) ==
  IF range.kind = "ver" /\ range.v \in SeqToSet(versions) THEN range.v
  ELSE IF range.kind = "npm"
    THEN IF range.inner # NoRange THEN resolveVersion(range.inner, versions)
         ELSE NoVersion
  ELSE IF range.kind = "url" THEN NoVersion
  ELSE maxSatisfying(versions, range)

\* an entry of an os/cpu/libc list: "linux" is Plat("linux"), "!linux" is Not("linux")
Plat(n) == [neg |-> FALSE, name |-> n]
Not(n) == [neg |-> TRUE, name |-> n]

ListAllows(list, target) ==
  Len(list) > 0 =>
    \E k \in 1..Len(list) :
      IF list[k].neg THEN list[k].name # target ELSE list[k].name = target

matchesPlatform(v) ==
  /\ ListAllows(v.os, "linux")
  /\ ListAllows(v.cpu, "x64")
  /\ ListAllows(v.libc, "glibc")

\* fetchPackument: the cached value, else the registry's answer (null when the
\* signal is aborted, the request fails or the package does not exist).  The
\* cache maps a name to TRUE when it holds the name's packument of the snapshot
\* and to FALSE when it holds null.
fetchWithoutSignal(name, cache, signal, R) ==
  IF name \in DOMAIN cache THEN (IF cache[name] THEN R[name] ELSE NoPackument)
  ELSE IF name \in DOMAIN R THEN R[name]
  ELSE NoPackument
fetchPackument(name, cache, signal, R) ==
  IF name \in DOMAIN cache THEN (IF cache[name] THEN R[name] ELSE NoPackument)
  ELSE IF signal THEN NoPackument
  ELSE IF name \in DOMAIN R THEN R[name]
  ELSE NoPackument

\* cache.set(name, data) and cache.set(name, null) of fetchPackument
CachePut(cache, name, p) ==
  IF name \in DOMAIN cache THEN cache
  ELSE [n \in DOMAIN cache \cup {name} |-> IF n = name THEN p.ok ELSE cache[n]]

\* versionData of a packument for a version string (undefined: NoVersionData)
NoVersionData == [version |-> NoVersion]
VersionData(packument, version) ==
  LET hit == {k \in 1..Len(packument.versions) : packument.versions[k].version = version}
  IN IF hit = {} THEN NoVersionData ELSE packument.versions[CHOOSE k \in hit : TRUE]

Versions(packument) == [k \in 1..Len(packument.versions) |-> packument.versions[k].version]

HasName(level, name) == \E k \in 1..Len(level) : level[k][1] = name

\* { ...dependencies, ...optionalDependencies }: the keys of dependencies in
\* their order, a key of both taking the optional range, then the new keys
RECURSIVE MergeDeps(_, _)
MergeDeps(deps, opt) ==
  IF Len(opt) = 0 THEN deps
  ELSE LET e == Head(opt)
           merged == IF HasName(deps, e[1])
                     THEN [k \in 1..Len(deps) |-> IF deps[k][1] = e[1] THEN e ELSE deps[k]]
                     ELSE Append(deps, e)
       IN MergeDeps(merged, Tail(opt))

Key(name, versionString) == <<name, versionString>>
\* the resolved Map is the set of its entries [key, name, version, size]
HasKey(resolved, key) == \E e \in resolved : e.key = key

\* the condition under which a dependency joins the next level; without the test of
\* seen a name of an earlier level joins again
QueueUnlessQueued(t, depName) ==
  /\ ~HasName(t.nextLevel, depName)
  /\ Cardinality(t.resolved) < MAX_PACKAGES
ShouldQueueDep(t, depName) ==
  /\ depName \notin t.seen
  /\ ~HasName(t.nextLevel, depName)
  /\ Cardinality(t.resolved) < MAX_PACKAGES

RECURSIVE QueueDeps(_, _)
QueueDeps(t, deps) ==
  IF Len(deps) = 0 THEN t
  ELSE LET e == Head(deps)
           t1 == IF ShouldQueueDep(t, e[1])
                 THEN [t EXCEPT !.nextLevel = Append(@, e)]
                 ELSE t
       IN QueueDeps(t1, Tail(deps))

\* resolved.set(key, ...) guarded by !resolved.has(key)
RecordResolved(resolved, name, version, size) ==
  LET key == Key(name, Ver(version))
  IN IF HasKey(resolved, key) THEN resolved
     ELSE resolved \cup {[key |-> key, name |-> name, version |-> version, size |-> size]}

\* the async callback of batch.map, from the completion of its fetch to its end
Callback(t, name, range, signal, R) ==
  LET packument == fetchPackument(name, t.packumentCache, signal, R)
      t0 == [t EXCEPT !.packumentCache = CachePut(@, name, packument)]
  IN IF ~packument.ok THEN t0
     ELSE LET version == resolveVersion(range, Versions(packument))
          IN IF version = NoVersion THEN t0
             ELSE LET versionData == VersionData(packument, version)
                  IN IF versionData = NoVersionData \/ ~matchesPlatform(versionData) THEN t0
                     ELSE LET size == IF versionData.hasSize THEN versionData.size ELSE 0
                              t1 == [t0 EXCEPT !.resolved = RecordResolved(@, name, version, size)]
                              deps == MergeDeps(versionData.dependencies,
                                                versionData.optionalDependencies)
                          IN QueueDeps(t1, deps)

(***************************************************************************)
(* resolveDependencyTree as a state machine.  A traversal state is         *)
(*   [tree, currentLevel, batchStart, pending, done]                       *)
(* and it moves when the fetch of one entry of the current batch completes.*)
(***************************************************************************)
Min(a, b) == IF a < b THEN a ELSE b
MinOf(S) == CHOOSE x \in S : \A y \in S : x <= y

LevelNames(level) == {level[k][1] : k \in 1..Len(level)}

BatchOf(level, i) == i..Min(i + batchSize - 1, Len(level))

\* the loop condition of the level loop
LevelContinues(level, resolved) == Len(level) > 0 /\ Cardinality(resolved) < MAX_PACKAGES

\* the top of the level loop: mark the level's names seen and start its first batch
EnterLevel(t, level) ==
  IF LevelContinues(level, t.resolved)
  THEN [tree |-> [t EXCEPT !.seen = @ \cup LevelNames(level), !.nextLevel = <<>>],
        currentLevel |-> level, batchStart |-> 1, pending |-> BatchOf(level, 1),
        done |-> FALSE]
  ELSE [tree |-> t, currentLevel |-> level, batchStart |-> 1, pending |-> {},
        done |-> TRUE]

EmptyTree == [resolved |-> {}, seen |-> {}, nextLevel |-> <<>>,
              packumentCache |-> <<>>]

resolveDependencyTree(name, version) ==
  EnterLevel(EmptyTree, << <<name, version>> >>)

\* the fetch of entry j of the current batch completes and its callback runs; the
\* last callback of a batch lets Promise.all return: next batch, or next level
FetchCompletes(st, j, signal, R) ==
  LET e == st.currentLevel[j]
      t == Callback(st.tree, e[1], e[2], signal, R)
      left == st.pending \ {j}
      i == st.batchStart + batchSize
  IN IF left # {} THEN [st EXCEPT !.tree = t, !.pending = left]
     ELSE IF i <= Len(st.currentLevel)
       THEN [st EXCEPT !.tree = t, !.batchStart = i,
                       !.pending = BatchOf(st.currentLevel, i)]
     ELSE EnterLevel(t, t.nextLevel)

\* the sums of getInstallSize over the resolved map
\* totalSize += pkg.size over the entries of the map, added up size by size
RECURSIVE SumSizes(_, _)
SumSizes(resolved, sizes) ==
  IF sizes = {} THEN 0
  ELSE LET z == CHOOSE x \in sizes : TRUE
       IN z * Cardinality({e \in resolved : e.size = z}) + SumSizes(resolved, sizes \ {z})

TotalSize(resolved) == SumSizes(resolved, {e.size : e \in resolved})

\* a count that forgets to leave the root out
CountsEveryPackage(pkg, rootKey) == TRUE

\* a package counts as a dependency unless its name@version is the root key
IsDependency(pkg, rootKey) == Key(pkg.name, Ver(pkg.version)) # rootKey

CountDeps(resolved, rootKey) ==
  Cardinality({pkg \in resolved : IsDependency(pkg, rootKey)})

SelfSize(resolved, rootKey) ==
  LET hit == {e \in resolved : e.key = rootKey}
  IN IF hit = {} THEN 0 ELSE (CHOOSE e \in hit : TRUE).size

NoResult == [kind |-> "none"]
NullResult == [kind |-> "null"]
InstallSizeResult(resolved, rootKey) ==
  [kind |-> "sizes",
   selfSize |-> SelfSize(resolved, rootKey),
   totalSize |-> TotalSize(resolved),
   dependencyCount |-> CountDeps(resolved, rootKey)]

\* resolvedVersion: version ?? dist-tags.latest ?? last key of versions
ResolvedVersion(version, packument) ==
  IF version # NoRange THEN version
  ELSE IF packument.latest # NoRange THEN packument.latest
  ELSE IF Len(packument.versions) > 0
    THEN Ver(packument.versions[Len(packument.versions)].version)
  ELSE NoRange

(***************************************************************************)
(* Registry snapshots the resolver is run against.                         *)
(***************************************************************************)
v100 == <<1, 0, 0>>
v110 == <<1, 1, 0>>
v120 == <<1, 2, 0>>
v200 == <<2, 0, 0>>
v999 == <<9, 9, 9>>

\* a@1.0.0 -> b@^1.0.0, c@1.0.0; c -> b@^1.0.0; b resolves to 1.2.0 of size 100
RegDiamond ==
  [n \in {"a", "b", "c"} |->
    CASE n = "a" -> Packument(Ver(v100),
                      << V(v100, 10, << <<"b", Caret(v100)>>, <<"c", Ver(v100)>> >>) >>)
      [] n = "b" -> Packument(Ver(v200),
                      << V(v100, 50, <<>>), V(v120, 100, <<>>), V(v200, 400, <<>>) >>)
      [] n = "c" -> Packument(Ver(v100),
                      << V(v100, 20, << <<"b", Caret(v100)>> >>) >>)]

\* b and c sit on one level and ask for different majors of d
RegRace ==
  [n \in {"a", "b", "c", "d"} |->
    CASE n = "a" -> Packument(Ver(v120),
                      << V(v100, 1, << <<"b", Ver(v100)>>, <<"c", Ver(v100)>> >>),
                         V(v120, 2, << <<"b", Ver(v100)>>, <<"c", Ver(v100)>> >>) >>)
      [] n = "b" -> Packument(Ver(v100), << V(v100, 3, << <<"d", Caret(v100)>> >>) >>)
      [] n = "c" -> Packument(Ver(v100), << V(v100, 5, << <<"d", Caret(v200)>> >>) >>)
      [] n = "d" -> Packument(Ver(v200), << V(v110, 7, <<>>), V(v200, 9, <<>>) >>)]

\* a cycle a -> b -> a, a self-dependency, and no dist-tags on the root
RegCycle ==
  [n \in {"a", "b", "c"} |->
    CASE n = "a" -> Packument(NoRange,
                      << V(v100, 4, << <<"b", Caret(v100)>>, <<"a", Ver(v100)>> >>) >>)
      [] n = "b" -> Packument(Ver(v110),
                      << V(v110, 6, << <<"a", Caret(v100)>>, <<"c", Caret(v100)>> >>) >>)
      [] n = "c" -> Packument(Ver(v100),
                      << V(v100, 8, << <<"c", Ver(v100)>>, <<"b", Ver(v110)>> >>) >>)]

\* dependencies that do not resolve: a URL, aliases, a tag, a missing package,
\* a version that is not published, a package for another platform; the alias m of
\* lodash@^1.0.0 is also the name of a published package
RegSkips ==
  [n \in {"a", "f", "h", "k", "lodash", "m", "w"} |->
    CASE n = "a" -> Packument(Ver(v100),
                      << PV(v100, 11,
                            << <<"e", Url("https://x/e.tgz")>>, <<"f", Npm("lodash", NoRange)>>,
                               <<"g", Caret(v100)>>, <<"h", Tag("latest")>>,
                               <<"k", Ver(v999)>>, <<"m", Npm("lodash", Caret(v100))>> >>,
                            << <<"w", Caret(v100)>>, <<"k", Caret(v100)>> >>,
                            <<>>, <<>>, <<>>) >>)
      [] n = "f" -> Packument(Ver(v100), << V(v100, 13, <<>>) >>)
      [] n = "h" -> Packument(Ver(v100), << V(v100, 17, <<>>) >>)
      [] n = "k" -> Packument(Ver(v100),
                      << [V(v100, 0, <<>>) EXCEPT !.hasSize = FALSE] >>)
      [] n = "lodash" -> Packument(Ver(v120), << V(v120, 31, <<>>) >>)
      [] n = "m" -> Packument(Ver(v100), << V(v110, 19, <<>>) >>)
      [] n = "w" -> Packument(Ver(v100),
                      << PV(v100, 23, <<>>, <<>>, <<Plat("win32")>>, <<>>, <<>>),
                         PV(v110, 29, <<>>, <<>>, <<Not("win32")>>, <<Plat("x64"), Plat("arm64")>>,
                            <<Not("musl")>>),
                         PV(v120, 37, <<>>, <<>>, <<Not("linux"), Not("win32")>>,
                            <<Plat("arm64"), Not("ia32")>>, <<>>) >>)]

\* two chains of single dependencies under one root: every level holds two entries
LadderDepth == MAX_PACKAGES \div 2
XName(i) == "x" \o ToString(i)
YName(i) == "y" \o ToString(i)
LadderNext(n) ==
  LET ix == {i \in 1..LadderDepth : XName(i) = n}
      iy == {i \in 1..LadderDepth : YName(i) = n}
  IN IF ix # {} THEN << <<XName(1 + CHOOSE i \in ix : TRUE), Ver(v100)>> >>
     ELSE IF iy # {} THEN << <<YName(1 + CHOOSE i \in iy : TRUE), Ver(v100)>> >>
     ELSE << <<XName(1), Ver(v100)>>, <<YName(1), Ver(v100)>> >>
RegLadder ==
  [n \in {"a"} \cup {XName(i) : i \in 1..LadderDepth} \cup {YName(i) : i \in 1..LadderDepth} |->
    IF n = "a" THEN Packument(Ver(v200), << V(v200, 1, LadderNext(n)) >>)
    ELSE Packument(Ver(v100), << V(v100, 1, LadderNext(n)) >>)]

\* a depends on e by a URL and on b; b depends on e@^1.0.0
RegShadow ==
  [n \in {"a", "b", "e"} |->
    CASE n = "a" -> Packument(Ver(v100),
                      << V(v100, 10, << <<"e", Url("https://x/e.tgz")>>,
                                        <<"b", Caret(v100)>> >>) >>)
      [] n = "b" -> Packument(Ver(v100), << V(v100, 20, << <<"e", Caret(v100)>> >>) >>)
      [] n = "e" -> Packument(Ver(v100), << V(v100, 7, <<>>) >>)]

RegistryNames == {"diamond", "race", "cycle", "skips", "ladder", "shadow"}
Registry(r) ==
  CASE r = "diamond" -> RegDiamond
    [] r = "race" -> RegRace
    [] r = "cycle" -> RegCycle
    [] r = "skips" -> RegSkips
    [] r = "ladder" -> RegLadder
    [] r = "shadow" -> RegShadow

RootNames == {"a", "ghost"}
RootArgs == {NoRange, Ver(v100), Caret(v100), Ver(v999), Tag("latest")}

(***************************************************************************)
(* getInstallSize                                                          *)
(***************************************************************************)

(***************************************************************************)
(* Notification dispatcher                                                 *)
(***************************************************************************)
\* Strings that are joined with "-" into job ids are sequences of dash-free parts:
\* "left-pad" is <<"left", "pad">>.
Users == {<<"u1">>, <<"u2">>}
\* names and versions as their parts between "-": pad, pad-1.0.0; 1.0.0, 1.0.0-1.0.0
Packages == {<<"pad">>, <<"pad", "1.0.0">>}
NewVersions == {<<"1.0.0">>, <<"1.0.0", "1.0.0">>}
\* the releases that are dispatched: pad-1.0.0@1.0.0 and pad@1.0.0-1.0.0
Releases ==
  {<<pkg, ver>> \in Packages \X NewVersions : Len(pkg) + Len(ver) = 3}
Severities == {"critical", "important", "info"}

\* rows of the favorite table
Favorites == {<<u, pkg>> : u \in Users, pkg \in Packages}

NoRow == [present |-> FALSE]
PrefsRow(all, major, security, inApp, slack, digest, critical) ==
  [present |-> TRUE, notify_all_updates |-> all, notify_major_only |-> major,
   notify_security_only |-> security, in_app_enabled |-> inApp, slack_enabled |-> slack,
   email_digest_enabled |-> digest, email_immediate_critical |-> critical]

\* row.column ?? default over the LEFT JOIN: the columns of a missing row are null;
\* without the defaults a missing column counts as false
CoalesceToFalse(row, column, default) == IF row.present THEN row[column] ELSE FALSE
Coalesce(row, column, default) == IF row.present THEN row[column] ELSE default

\* the prefs object dispatchNotifications builds from a row of its query
PrefsOf(row) ==
  [notifyAllUpdates |-> Coalesce(row, "notify_all_updates", FALSE),
   notifyMajorOnly |-> Coalesce(row, "notify_major_only", TRUE),
   notifySecurityOnly |-> Coalesce(row, "notify_security_only", TRUE),
   inAppEnabled |-> Coalesce(row, "in_app_enabled", TRUE),
   slackEnabled |-> Coalesce(row, "slack_enabled", FALSE),
   emailDigestEnabled |-> Coalesce(row, "email_digest_enabled", FALSE),
   emailImmediateCritical |-> Coalesce(row, "email_immediate_critical", TRUE)]

\* the preferences getUsersWithFavoritesForPackage returns for a row of its join
FavoritePrefsOf(row) ==
  [notifyAllUpdates |-> Coalesce(row, "notify_all_updates", FALSE),
   notifyMajorOnly |-> Coalesce(row, "notify_major_only", TRUE),
   notifySecurityOnly |-> Coalesce(row, "notify_security_only", TRUE),
   inAppEnabled |-> Coalesce(row, "in_app_enabled", TRUE),
   emailDigestEnabled |-> Coalesce(row, "email_digest_enabled", FALSE),
   emailImmediateCritical |-> Coalesce(row, "email_immediate_critical", TRUE)]

\* getNotificationPreferences: prefs || { defaults }, for the user's row or no row
getNotificationPreferences(row) ==
  IF row.present
  THEN [notifyAllUpdates |-> row.notify_all_updates,
        notifyMajorOnly |-> row.notify_major_only,
        notifySecurityOnly |-> row.notify_security_only,
        inAppEnabled |-> row.in_app_enabled,
        emailDigestEnabled |-> row.email_digest_enabled,
        emailImmediateCritical |-> row.email_immediate_critical]
  ELSE [notifyAllUpdates |-> FALSE,
        notifyMajorOnly |-> TRUE,
        notifySecurityOnly |-> TRUE,
        inAppEnabled |-> TRUE,
        emailDigestEnabled |-> FALSE,
        emailImmediateCritical |-> TRUE]

\* a filter without the security rule
notifyWithoutSecurityRule(prefs, severity, isSecurityUpdate) ==
  IF prefs.notifyAllUpdates THEN TRUE
  ELSE IF prefs.notifyMajorOnly /\ severity # "info" THEN TRUE
  ELSE FALSE

shouldNotifyUser(prefs, severity, isSecurityUpdate) ==
  IF prefs.notifyAllUpdates THEN TRUE
  ELSE IF prefs.notifySecurityOnly /\ isSecurityUpdate THEN TRUE
  ELSE IF prefs.notifyMajorOnly /\ severity # "info" THEN TRUE
  ELSE FALSE

\* the result of the favorites query for a package: one row per favoriting user
RECURSIVE SetToSeq(_)
SetToSeq(S) ==
  IF S = {} THEN <<>>
  ELSE LET x == CHOOSE y \in S : TRUE IN <<x>> \o SetToSeq(S \ {x})

UsersWithFavorites(packageName, prefs) ==
  LET us == {u \in Users : <<u, packageName>> \in Favorites}
      order == SetToSeq(us)
  IN [k \in 1..Len(order) |-> [user_id |-> order[k], np |-> prefs[order[k]]]]

\* INSERT INTO notification ... ON CONFLICT (user_id, package_name, new_version) DO NOTHING
Conflicts(table, userId, data) ==
  \E r \in table : /\ r.userId = userId
                   /\ r.packageName = data.packageName
                   /\ r.newVersion = data.newVersion

\* an insert without the ON CONFLICT clause
InsertAlways(table, id, userId, data) ==
  table \cup {[id |-> id, userId |-> userId, packageName |-> data.packageName,
               newVersion |-> data.newVersion, severity |-> data.severity,
               isSecurityUpdate |-> data.isSecurityUpdate, read |-> FALSE]}

InsertNotification(table, id, userId, data) ==
  IF Conflicts(table, userId, data) THEN table
  ELSE table \cup {[id |-> id, userId |-> userId, packageName |-> data.packageName,
                    newVersion |-> data.newVersion, severity |-> data.severity,
                    isSecurityUpdate |-> data.isSecurityUpdate, read |-> FALSE]}

\* the job ids of the delivery queues: the parts joined with "-"
SlackJobId(userId, data) == <<"slack">> \o userId \o data.packageName \o data.newVersion
EmailJobId(userId, data) == <<"email">> \o userId \o data.packageName \o data.newVersion

Zero == [notified |-> 0, skipped |-> 0]

\* queryFailed: the call's favorites query threw
IdleCall == [pc |-> "idle", call |-> 0, rows |-> <<>>, k |-> 1, data |-> NoRow,
             notified |-> 0, skipped |-> 0, ret |-> NoResult, queryFailed |-> FALSE]

\* a dispatcher that returns early only for an empty result
NoOpOnlyWhenEmpty(available, queryFails, rows) == Len(rows) = 0
\* the cases in which dispatchNotifications returns {notified: 0, skipped: 0} at once:
\* no database, the favorites query throws, or nobody favorited the package
DispatchIsNoOp(available, queryFails, rows) ==
  ~available \/ queryFails \/ Len(rows) = 0

\* The dispatcher loop between two awaits.  AtUser is the top of the loop body for
\* rows[k]; AfterInApp, AfterSlack and AfterEmail continue the body after the
\* channel's await, down to the next await or to the return.
RECURSIVE AtUser(_)
AfterEmail(c) == AtUser([c EXCEPT !.notified = @ + 1, !.k = @ + 1])
AfterSlack(c) ==
  IF PrefsOf(c.rows[c.k].np).emailImmediateCritical /\ c.data.severity = "critical"
  THEN [c EXCEPT !.pc = "email"]
  ELSE AfterEmail(c)
AfterInApp(c) ==
  IF PrefsOf(c.rows[c.k].np).slackEnabled THEN [c EXCEPT !.pc = "slackQuery"]
  ELSE AfterSlack(c)
AtUser(c) ==
  IF c.k > Len(c.rows)
  THEN [IdleCall EXCEPT !.ret = [notified |-> c.notified, skipped |-> c.skipped]]
  ELSE LET prefs == PrefsOf(c.rows[c.k].np)
       IN IF ~shouldNotifyUser(prefs, c.data.severity, c.data.isSecurityUpdate)
          THEN AtUser([c EXCEPT !.skipped = @ + 1, !.k = @ + 1])
          ELSE IF prefs.inAppEnabled # FALSE THEN [c EXCEPT !.pc = "inApp"]
          ELSE AfterInApp(c)

\* queue.add with a jobId: a job whose id the queue already holds is not added again
QueueAdd(queue, job) ==
  IF \E j \in queue : j.jobId = job.jobId THEN queue ELSE queue \cup {job}

DeliveryJob(jobId, userId, data) ==
  [jobId |-> jobId, userId |-> userId, packageName |-> data.packageName,
   newVersion |-> data.newVersion]

\* bounds of the dispatcher model
MaxDispatches == 2
\* the users who mark their notifications as read
Readers == {<<"u2">>}

\* .set({ read: true }); a switch that turns the flag over instead
ToggleRead(r) == [r EXCEPT !.read = ~@]
MarkRead(r) == [r EXCEPT !.read = TRUE]

\* the workers that may be inside dispatchNotifications at the same time
Calls == {"w1", "w2"}

PrefProfiles ==
  {NoRow,
   PrefsRow(TRUE, FALSE, FALSE, TRUE, TRUE, FALSE, TRUE),
   PrefsRow(FALSE, FALSE, FALSE, TRUE, FALSE, FALSE, FALSE),
   PrefsRow(FALSE, TRUE, TRUE, FALSE, TRUE, TRUE, TRUE)}

IdleDispatch ==
  /\ dbAvailable = FALSE
  /\ prefsRow = [u \in Users |-> NoRow]
  /\ slackUsers = {}
  /\ notification = {}
  /\ slackQueue = {}
  /\ emailQueue = {}
  /\ disp = [p \in Calls |-> IdleCall]
  /\ dispatched = 0
  /\ update = [severity |-> "info", isSecurityUpdate |-> FALSE]

StartDispatch ==
  /\ dbAvailable \in BOOLEAN
  /\ \E r \in PrefProfiles :
       prefsRow = [u \in Users |-> IF u = <<"u1">> THEN r
                     ELSE PrefsRow(TRUE, FALSE, FALSE, TRUE, TRUE, FALSE, FALSE)]
  /\ dbAvailable = FALSE => prefsRow[<<"u1">>] = NoRow
  /\ slackUsers = {<<"u1">>}
  /\ update \in [severity : Severities, isSecurityUpdate : BOOLEAN]
  /\ notification = {}
  /\ slackQueue = {}
  /\ emailQueue = {}
  /\ disp = [p \in Calls |-> IdleCall]
  /\ dispatched = 0

NotificationData(packageName, newVersion, severity, isSecurityUpdate) ==
  [packageName |-> packageName, newVersion |-> newVersion, severity |-> severity,
   isSecurityUpdate |-> isSecurityUpdate]

\* createId(): an id no other insert uses (the call's number and the row's index)
CreateId(c) == <<c.call, c.k>>

\* dispatchNotifications up to its first await in the loop, or to its return
Dispatch(p) ==
  /\ disp[p].pc = "idle"
  /\ dispatched < MaxDispatches
  /\ dispatched' = dispatched + 1
  /\ \E packageName \in Packages, newVersion \in NewVersions, queryFails \in BOOLEAN :
       /\ <<packageName, newVersion>> \in Releases
       /\ LET rows == UsersWithFavorites(packageName, prefsRow)
              c == [IdleCall EXCEPT
                      !.call = dispatched + 1,
                      !.queryFailed = dbAvailable /\ queryFails,
                      !.rows = rows,
                      !.data = NotificationData(packageName, newVersion, update.severity,
                                                update.isSecurityUpdate)]
          IN disp' = [disp EXCEPT ![p] =
                        IF DispatchIsNoOp(dbAvailable, queryFails, rows)
                        THEN [IdleCall EXCEPT !.ret = Zero, !.queryFailed = c.queryFailed]
                        ELSE AtUser(c)]
  /\ UNCHANGED <<dbAvailable, prefsRow, slackUsers, notification, slackQueue, emailQueue,
                 update>>
  /\ UNCHANGED otherThanDispatch

\* createInAppNotification: the insert, or its error caught and logged
CreateInAppNotification(p) ==
  /\ disp[p].pc = "inApp"
  /\ LET c == disp[p]
         userId == c.rows[c.k].user_id
     IN /\ \/ notification' = InsertNotification(notification, CreateId(c), userId, c.data)
           \/ UNCHANGED notification
        /\ disp' = [disp EXCEPT ![p] = AfterInApp(c)]
  /\ UNCHANGED <<dbAvailable, prefsRow, slackUsers, slackQueue, emailQueue, dispatched,
                 update>>
  /\ UNCHANGED otherThanDispatch

\* queueSlackNotification up to slackQueue.add: the integration query
SlackQuery(p) ==
  /\ disp[p].pc = "slackQuery"
  /\ LET c == disp[p]
         userId == c.rows[c.k].user_id
     IN \/ /\ userId \in slackUsers
           /\ disp' = [disp EXCEPT ![p] = [c EXCEPT !.pc = "slackAdd"]]
        \/ disp' = [disp EXCEPT ![p] = AfterSlack(c)]
  /\ UNCHANGED <<dbAvailable, prefsRow, slackUsers, notification, slackQueue, emailQueue,
                 dispatched, update>>
  /\ UNCHANGED otherThanDispatch

\* slackQueue.add, or its error caught and logged
SlackAdd(p) ==
  /\ disp[p].pc = "slackAdd"
  /\ LET c == disp[p]
         userId == c.rows[c.k].user_id
     IN /\ \/ slackQueue' = QueueAdd(slackQueue,
                                     DeliveryJob(SlackJobId(userId, c.data), userId, c.data))
           \/ UNCHANGED slackQueue
        /\ disp' = [disp EXCEPT ![p] = AfterSlack(c)]
  /\ UNCHANGED <<dbAvailable, prefsRow, slackUsers, notification, emailQueue, dispatched,
                 update>>
  /\ UNCHANGED otherThanDispatch

\* queueImmediateEmail: emailQueue.add, or its error caught and logged
QueueImmediateEmail(p) ==
  /\ disp[p].pc = "email"
  /\ LET c == disp[p]
         userId == c.rows[c.k].user_id
     IN /\ \/ emailQueue' = QueueAdd(emailQueue,
                                     DeliveryJob(EmailJobId(userId, c.data), userId, c.data))
           \/ UNCHANGED emailQueue
        /\ disp' = [disp EXCEPT ![p] = AfterEmail(c)]
  /\ UNCHANGED <<dbAvailable, prefsRow, slackUsers, notification, slackQueue, dispatched,
                 update>>
  /\ UNCHANGED otherThanDispatch

\* markNotificationRead(db, userId, notificationId): set read where id and user match
MarkNotificationRead ==
  /\ dbAvailable
  /\ \E userId \in Readers, r \in notification :
       notification' = {IF x.id = r.id /\ x.userId = userId THEN MarkRead(x) ELSE x :
                          x \in notification}
  /\ UNCHANGED <<dbAvailable, prefsRow, slackUsers, slackQueue, emailQueue, disp,
                 dispatched, update>>
  /\ UNCHANGED otherThanDispatch

\* markAllNotificationsRead(db, userId): set read on the user's unread records
MarkAllNotificationsRead ==
  /\ dbAvailable
  /\ \E userId \in Readers :
       notification' = {IF x.userId = userId /\ x.read = FALSE THEN MarkRead(x) ELSE x :
                          x \in notification}
  /\ UNCHANGED <<dbAvailable, prefsRow, slackUsers, slackQueue, emailQueue, disp,
                 dispatched, update>>
  /\ UNCHANGED otherThanDispatch

NextDispatch ==
  \/ \E p \in Calls : Dispatch(p)
  \/ \E p \in Calls : CreateInAppNotification(p)
  \/ \E p \in Calls : SlackQuery(p)
  \/ \E p \in Calls : SlackAdd(p)
  \/ \E p \in Calls : QueueImmediateEmail(p)
  \/ MarkNotificationRead
  \/ MarkAllNotificationsRead


\* C6: after any number of sequential or concurrent dispatchNotifications calls the
\* notification table holds at most one record per (userId, packageName, newVersion)
C6_OneRowPerKey ==
  \A r1, r2 \in notification :
    (/\ r1.userId = r2.userId
     /\ r1.packageName = r2.packageName
     /\ r1.newVersion = r2.newVersion) => r1 = r2

\* a call has gone past its insert for a user while the table holds the record that
\* another call created for the same user, package and version
C6_Witness ==
  \E r \in notification, p \in Calls :
    LET c == disp[p]
    IN /\ c.pc \in {"slackQuery", "slackAdd", "email"}
       /\ c.call # r.id[1]
       /\ c.rows[c.k].user_id = r.userId
       /\ PrefsOf(c.rows[c.k].np).inAppEnabled
       /\ c.data.packageName = r.packageName
       /\ c.data.newVersion = r.newVersion

\* the filter in the claim's words, on the preferences of a row of the favorites query
WantsUpdate(np, u) ==
  \/ PrefsOf(np).notifyAllUpdates
  \/ PrefsOf(np).notifySecurityOnly /\ u.isSecurityUpdate
  \/ PrefsOf(np).notifyMajorOnly /\ u.severity # "info"

Wanting(rows, n, u) == {j \in 1..n : WantsUpdate(rows[j].np, u)}

\* C11: dispatchNotifications counts a favoriting user as notified exactly when
\* notifyAllUpdates, or notifySecurityOnly and the update is a security update, or
\* notifyMajorOnly and severity is not info, and as skipped otherwise: while a call
\* runs its counters are the numbers of such users among the rows it has gone through,
\* and a call that went through its rows returns these numbers for all rows
C11_FilterCounts ==
  \A p \in Calls :
    LET c == disp[p]
        all == UsersWithFavorites(CHOOSE pkg \in Packages : TRUE, prefsRow)
    IN /\ c.pc # "idle" =>
            /\ c.notified = Cardinality(Wanting(c.rows, c.k - 1, c.data))
            /\ c.skipped = (c.k - 1) - Cardinality(Wanting(c.rows, c.k - 1, c.data))
       /\ (c.pc = "idle" /\ c.ret # NoResult /\ c.ret # Zero) =>
            /\ c.ret.notified = Cardinality(Wanting(all, Len(all), update))
            /\ c.ret.skipped = Len(all) - Cardinality(Wanting(all, Len(all), update))

\* a call has returned for an info-severity update that is no security update: the user
\* with notifyAllUpdates false, notifyMajorOnly and notifySecurityOnly true was skipped
\* and the user with notifyAllUpdates was notified
C11_Witness ==
  /\ update = [severity |-> "info", isSecurityUpdate |-> FALSE]
  /\ PrefsOf(prefsRow[<<"u1">>]).notifyAllUpdates = FALSE
  /\ PrefsOf(prefsRow[<<"u1">>]).notifyMajorOnly
  /\ PrefsOf(prefsRow[<<"u1">>]).notifySecurityOnly
  /\ \E p \in Calls : disp[p].pc = "idle" /\ disp[p].ret = [notified |-> 1, skipped |-> 1]

\* the triple a delivery job was made for
TripleOf(job) == <<job.userId, job.packageName, job.newVersion>>

\* C12: the delivery job id is a key for the triple (userId, packageName, newVersion):
\* each queue holds at most one job per triple, and the job id of a queued job is the
\* job id of no other triple
C12_JobIdIsKey ==
  /\ \A j1, j2 \in slackQueue : TripleOf(j1) = TripleOf(j2) => j1 = j2
  /\ \A j1, j2 \in emailQueue : TripleOf(j1) = TripleOf(j2) => j1 = j2
  /\ \A j \in slackQueue : \A u \in Users, r \in Releases :
       SlackJobId(u, [packageName |-> r[1], newVersion |-> r[2]]) = j.jobId
         => <<u, r[1], r[2]>> = TripleOf(j)
  /\ \A j \in emailQueue : \A u \in Users, r \in Releases :
       EmailJobId(u, [packageName |-> r[1], newVersion |-> r[2]]) = j.jobId
         => <<u, r[1], r[2]>> = TripleOf(j)

\* C21: a dispatchNotifications call made while the database is unavailable, or whose
\* favorites query fails, returns {notified: 0, skipped: 0} at once: it inserts no
\* notification record and adds no delivery job
C21_NoOpWithoutDatabase ==
  [][\A p \in Calls :
       (/\ dispatched' # dispatched
        /\ disp'[p] # disp[p]
        /\ ~dbAvailable \/ disp'[p].queryFailed) =>
         /\ disp'[p].pc = "idle"
         /\ disp'[p].ret = Zero
         /\ notification' = notification
         /\ slackQueue' = slackQueue
         /\ emailQueue' = emailQueue]_vars

\* a call whose favorites query failed has returned zeros while the database is
\* available and another call is delivering
C21_Witness ==
  /\ dbAvailable
  /\ \E p, q \in Calls :
       /\ disp[p].queryFailed /\ disp[p].pc = "idle" /\ disp[p].ret = Zero
       /\ disp[q].pc # "idle"
\* the preferences of the claim for a user without a row
MissingRowDefaults ==
  [notifyAllUpdates |-> FALSE, notifyMajorOnly |-> TRUE, notifySecurityOnly |-> TRUE,
   inAppEnabled |-> TRUE, emailDigestEnabled |-> FALSE, emailImmediateCritical |-> TRUE]

\* C24: a favoriting user without a notification_preferences row has, in
\* dispatchNotifications, getUsersWithFavoritesForPackage and getNotificationPreferences
\* alike, notifyMajorOnly, notifySecurityOnly, inAppEnabled and emailImmediateCritical
\* true and every other flag false; the dispatcher treats the user accordingly:
\* notified for every update that is not info or is a security update, never by Slack,
\* by email for critical updates only
C24_MissingRowDefaults ==
  /\ \A u \in Users :
       prefsRow[u] = NoRow =>
         /\ PrefsOf(prefsRow[u]) =
              [f \in DOMAIN MissingRowDefaults \cup {"slackEnabled"} |->
                 IF f = "slackEnabled" THEN FALSE ELSE MissingRowDefaults[f]]
         /\ FavoritePrefsOf(prefsRow[u]) = MissingRowDefaults
         /\ getNotificationPreferences(prefsRow[u]) = MissingRowDefaults
  /\ \A p \in Calls :
       LET c == disp[p]
       IN /\ (c.pc # "idle" /\ c.rows[c.k].np = NoRow) =>
               /\ c.data.severity # "info" \/ c.data.isSecurityUpdate
               /\ c.pc \in {"inApp", "email"}
               /\ c.pc = "email" => c.data.severity = "critical"
          /\ (/\ c.pc = "idle" /\ c.ret # NoResult /\ c.ret # Zero
              /\ \A u \in Users : prefsRow[u] = NoRow \/ PrefsOf(prefsRow[u]).notifyAllUpdates
              /\ update.severity # "info" \/ update.isSecurityUpdate) =>
               c.ret.skipped = 0

\* the user without a row has got the record of an important update
C24_Witness ==
  /\ prefsRow[<<"u1">>] = NoRow
  /\ update.severity = "important"
  /\ \E r \in notification : r.userId = <<"u1">>
  /\ \E p \in Calls : disp[p].pc = "idle" /\ disp[p].ret = [notified |-> 2, skipped |-> 0]
\* C25: every step leaves each existing notification record as it is or sets its read
\* from false to true, and no step of dispatchNotifications changes an existing record:
\* a later dispatch of the same user, package and version does not reset read
C25_RecordOnlyRead ==
  [][/\ \A r \in notification :
          \/ r \in notification'
          \/ ~r.read /\ [r EXCEPT !.read = TRUE] \in notification'
     /\ disp' # disp => notification \subseteq notification']_vars

\* a record has been read and a later call for the same user, package and version has
\* gone past its insert
C25_Witness ==
  \E r \in notification, p \in Calls :
    LET c == disp[p]
    IN /\ r.read
       /\ c.pc \in {"slackQuery", "slackAdd", "email"}
       /\ c.call # r.id[1]
       /\ c.rows[c.k].user_id = r.userId
       /\ PrefsOf(c.rows[c.k].np).inAppEnabled
       /\ c.data.packageName = r.packageName
       /\ c.data.newVersion = r.newVersion
       /\ Cardinality(notification) = 1

IdleResolver ==
  /\ reg = "diamond"
  /\ rootName = "a"
  /\ rootArg = NoRange
  /\ rootVersion = NoRange
  /\ rpc = "done"
  /\ tree = EmptyTree
  /\ currentLevel = <<>>
  /\ batchStart = 1
  /\ pending = {}
  /\ aborted = FALSE
  /\ result = NoResult

StartResolver ==
  /\ reg \in RegistryNames
  /\ rootName \in RootNames
  /\ rootArg \in RootArgs
  /\ rootVersion = NoRange
  /\ rpc = "start"
  /\ tree = EmptyTree
  /\ currentLevel = <<>>
  /\ batchStart = 1
  /\ pending = {}
  /\ aborted = FALSE
  /\ result = NoResult

Traversal == [tree |-> tree, currentLevel |-> currentLevel, batchStart |-> batchStart,
              pending |-> pending, done |-> FALSE]

RootKey == Key(rootName, rootVersion)

\* getInstallSize up to the first fetch of the traversal: the root packument
\* arrives, the version is chosen and resolveDependencyTree starts
GetInstallSizeBegin ==
  /\ rpc = "start"
  /\ LET packument == fetchPackument(rootName, <<>>, aborted, Registry(reg))
         rv == IF packument.ok THEN ResolvedVersion(rootArg, packument) ELSE NoRange
         st == resolveDependencyTree(rootName, rv)
     IN IF rv = NoRange
        THEN /\ result' = NullResult
             /\ rpc' = "done"
             /\ UNCHANGED <<rootVersion, tree, currentLevel, batchStart, pending>>
        ELSE /\ rootVersion' = rv
             /\ tree' = st.tree
             /\ currentLevel' = st.currentLevel
             /\ batchStart' = st.batchStart
             /\ pending' = st.pending
             /\ rpc' = "tree"
             /\ UNCHANGED result
  /\ UNCHANGED <<reg, rootName, rootArg, aborted>>
  /\ UNCHANGED otherThanResolver

\* one fetch of the current batch completes; when the traversal returns,
\* getInstallSize sums the resolved map and returns
FetchDone ==
  /\ rpc = "tree"
  /\ \E j \in pending :
       LET st == FetchCompletes(Traversal, j, aborted, Registry(reg))
       IN /\ tree' = st.tree
          /\ currentLevel' = st.currentLevel
          /\ batchStart' = st.batchStart
          /\ pending' = st.pending
          /\ IF st.done
             THEN /\ result' = InstallSizeResult(st.tree.resolved, RootKey)
                  /\ rpc' = "done"
             ELSE UNCHANGED <<result, rpc>>
  /\ UNCHANGED <<reg, rootName, rootArg, rootVersion, aborted>>
  /\ UNCHANGED otherThanResolver

\* the TIMEOUT_MS timer fires: controller.abort()
Timeout ==
  /\ rpc # "done"
  /\ ~aborted
  /\ aborted' = TRUE
  /\ UNCHANGED <<reg, rootName, rootArg, rootVersion, rpc, tree, currentLevel,
                 batchStart, pending, result>>
  /\ UNCHANGED otherThanResolver

NextResolver ==
  \/ GetInstallSizeBegin
  \/ FetchDone
  \/ Timeout


(***************************************************************************)
(* Properties of the resolver                                              *)
(***************************************************************************)
\* what the registry publishes as the unpacked size of name@version
RegSize(R, name, version) ==
  LET vd == VersionData(R[name], version)
  IN IF vd.hasSize THEN vd.size ELSE 0

\* the distinct name@version pairs of the resolved map
ResolvedPairs == {<<e.name, e.version>> : e \in tree.resolved}

\* the sum of the published sizes of a set of pairs, taken size by size
RECURSIVE SumPairsBy(_, _, _)
SumPairsBy(R, pairs, sizes) ==
  IF sizes = {} THEN 0
  ELSE LET z == CHOOSE x \in sizes : TRUE
       IN z * Cardinality({p \in pairs : RegSize(R, p[1], p[2]) = z})
          + SumPairsBy(R, pairs, sizes \ {z})

SumPairs(R, pairs) == SumPairsBy(R, pairs, {RegSize(R, p[1], p[2]) : p \in pairs})

Returned == rpc = "done" /\ result.kind = "sizes"

\* the root's name is in the resolved map: its version resolved
RootResolved == \E e \in tree.resolved : e.name = rootName
RootEntryVersion == (CHOOSE e \in tree.resolved : e.name = rootName).version

\* C7: for every non-null result whose root version resolves, selfSize is the
\* root's unpacked size, totalSize is the sum of the unpacked sizes of the distinct
\* resolved name@version pairs (at least selfSize), and dependencyCount is the
\* number of distinct resolved pairs minus one.
C7_InstallSizeSums ==
  (Returned /\ RootResolved) =>
    /\ result.selfSize = RegSize(Registry(reg), rootName, RootEntryVersion)
    /\ result.totalSize = SumPairs(Registry(reg), ResolvedPairs)
    /\ result.totalSize >= result.selfSize
    /\ result.dependencyCount = Cardinality(ResolvedPairs) - 1

\* the traversal run with every fetch completing in batch order
RECURSIVE InOrderRun(_, _)
InOrderRun(st, R) ==
  IF st.done THEN st
  ELSE InOrderRun(FetchCompletes(st, MinOf(st.pending), FALSE, R), R)

InOrderResult ==
  InstallSizeResult(
    InOrderRun(resolveDependencyTree(rootName, rootVersion), Registry(reg)).tree.resolved,
    RootKey)

\* C8: below the cap and the timeout, the result does not depend on the order in
\* which the parallel fetches of a level complete: it is the result of the run
\* whose fetches complete in batch order.
C8_OrderIndependent ==
  (Returned /\ ~aborted /\ Cardinality(tree.resolved) < MAX_PACKAGES) =>
    result = InOrderResult

\* C9: a name@version pair is recorded once and its size counted once; in the
\* diamond a@1.0.0 -> b@^1.0.0, c@1.0.0 -> b@^1.0.0, b resolves to 1.2.0, its 100
\* bytes are counted once (10 + 20 + 100) and dependencyCount is 2.
C9_DiamondOnce ==
  /\ Cardinality({e.key : e \in tree.resolved}) = Cardinality(tree.resolved)
  /\ Returned => result.totalSize = SumPairs(Registry(reg), ResolvedPairs)
  /\ (Returned /\ ~aborted /\ reg = "diamond" /\ rootName = "a"
        /\ rootArg \in {NoRange, Ver(v100)}) =>
       /\ ResolvedPairs = {<<"a", v100>>, <<"b", v120>>, <<"c", v100>>}
       /\ result.totalSize = 130
       /\ result.dependencyCount = 2

C9_Witness ==
  /\ Returned /\ ~aborted /\ reg = "diamond" /\ rootName = "a" /\ rootArg = Ver(v100)
  /\ <<"b", v120>> \in ResolvedPairs
  /\ result.totalSize = 130

\* a dependency that the claim calls skipped: a URL, git, file or path range, an
\* npm: alias without a target version, or a name whose packument cannot be fetched
IsSkippedDep(R, dep) ==
  \/ dep[2].kind = "url"
  \/ dep[2].kind = "npm" /\ dep[2].inner = NoRange
  \/ dep[1] \notin DOMAIN R

RECURSIVE DropSkippedDeps(_, _)
DropSkippedDeps(R, deps) ==
  IF Len(deps) = 0 THEN <<>>
  ELSE (IF IsSkippedDep(R, Head(deps)) THEN <<>> ELSE <<Head(deps)>>)
       \o DropSkippedDeps(R, Tail(deps))

\* the registry with every skipped dependency absent
DropSkipped(R) ==
  [n \in DOMAIN R |->
    [R[n] EXCEPT !.versions =
      [k \in 1..Len(R[n].versions) |->
        [R[n].versions[k] EXCEPT
           !.dependencies = DropSkippedDeps(R, @),
           !.optionalDependencies = DropSkippedDeps(R, @)]]]]

ResultWithoutSkipped ==
  InstallSizeResult(
    InOrderRun(resolveDependencyTree(rootName, rootVersion),
               DropSkipped(Registry(reg))).tree.resolved,
    RootKey)

\* C19: below the cap and the timeout, and where the order of the fetches makes no
\* difference, the result is the result on the registry in which every skipped
\* dependency is absent: a skipped dependency contributes nothing and leaves the
\* other branches as they are
C19_SkippedAsIfAbsent ==
  (Returned /\ ~aborted /\ Cardinality(tree.resolved) < MAX_PACKAGES
      /\ result = InOrderResult) =>
    result = ResultWithoutSkipped

\* C20: once the timeout has aborted the fetches of a traversal, no further package
\* is resolved, and when the traversal ends getInstallSize returns the sums over
\* the packages that were resolved before the abort
C20_PartialOnTimeout ==
  [][(rpc = "tree" /\ aborted) =>
       /\ tree'.resolved = tree.resolved
       /\ rpc' = "done" =>
            /\ result'.kind = "sizes"
            /\ result' = InstallSizeResult(tree.resolved, RootKey)]_vars

\* the timeout fired after the root of the diamond was resolved and before its
\* dependencies were: the result holds the root's 10 bytes alone
C20_Witness ==
  /\ Returned /\ aborted /\ reg = "diamond" /\ rootName = "a" /\ rootArg = Ver(v100)
  /\ result = [kind |-> "sizes", selfSize |-> 10, totalSize |-> 10, dependencyCount |-> 0]

\* C10: the resolved map never holds more than MAX_PACKAGES packages.
C10_CapRespected == Cardinality(tree.resolved) <= MAX_PACKAGES

(***************************************************************************)
(* The change-feed listener (src/apps/worker/src/index.ts).                 *)
(* streamChanges and queuePackageSync are imported from modules outside     *)
(* the sources at hand and are modelled from the specification: the feed is *)
(* append-only, a change's seq is its position in it, and a stream opened   *)
(* with a cursor yields the changes after that cursor in order.             *)
(* A change id is a sequence of tokens; the first token of a design         *)
(* document's id is "_design/".                                             *)
(***************************************************************************)
MaxFeed == 3

maxRetries == 10
since == "now"

ChangeIds == {<<"_design/", "app">>, <<"react">>}

Change(id, seq, deleted) == [id |-> id, seq |-> seq, deleted |-> deleted]
NoChange == [seq |-> 0]
NoSeq == 0 - 1

\* id.startsWith("_design/")
StartsWithDesign(id) == Len(id) >= 1 /\ id[1] = "_design/"

\* streamChanges(since): the seq after which the stream starts to yield
StreamStart(s, f) == IF s = "now" THEN Len(f) ELSE s

\* Math.min(1000 * Math.pow(2, retries), 30000)
BackoffDelay(r) == Min(1000 * 2^r, 30000)

\* retries = 0 at a received change
KeepOnChange(r) == r
ResetOnChange(r) == 0

\* the catch block of the reconnect loop: it sleeps unless the retries are used up
Catch ==
  /\ retries' = retries + 1
  /\ failures' = failures + 1
  /\ errPasses' = Min(errPasses + 1, maxRetries + 1)
  /\ IF retries + 1 < maxRetries
     THEN /\ delay' = BackoffDelay(retries + 1)
          /\ lpc' = "backoff"
     ELSE /\ delay' = delay
          /\ lpc' = "connect"

IdleListener ==
  /\ feed = <<>>
  /\ lpc = "fatal"
  /\ cursor = 0
  /\ retries = 0
  /\ delay = 0
  /\ change = NoChange
  /\ changeJobs = {}
  /\ startSeq = NoSeq
  /\ failures = 0
  /\ errPasses = 0

StartListener ==
  /\ feed = <<>>
  /\ lpc = "connect"
  /\ cursor = 0
  /\ retries = 0
  /\ delay = 0
  /\ change = NoChange
  /\ changeJobs = {}
  /\ startSeq = NoSeq
  /\ failures = 0
  /\ errPasses = 0

\* upstream appends a change to its log
Emit ==
  /\ Len(feed) < MaxFeed
  /\ \E id \in ChangeIds, deleted \in BOOLEAN :
       feed' = Append(feed, Change(id, Len(feed) + 1, deleted))
  /\ UNCHANGED <<lpc, cursor, retries, delay, change, changeJobs, startSeq, failures, errPasses>>
  /\ UNCHANGED otherThanListener

\* the loop test and streamChanges(since): a stream is opened
Connect ==
  /\ lpc = "connect"
  /\ IF retries < maxRetries
     THEN /\ lpc' = "stream"
          /\ cursor' = StreamStart(since, feed)
          /\ startSeq' = IF startSeq = NoSeq THEN StreamStart(since, feed) ELSE startSeq
     ELSE /\ lpc' = "fatal"
          /\ UNCHANGED <<cursor, startSeq, failures, errPasses>>
  /\ UNCHANGED <<feed, retries, delay, change, changeJobs, failures, errPasses>>
  /\ UNCHANGED otherThanListener

\* the stream yields its next change: one pass of the for-await body up to its await
Receive ==
  /\ lpc = "stream"
  /\ cursor < Len(feed)
  /\ cursor' = cursor + 1
  /\ retries' = ResetOnChange(retries)
  /\ failures' = 0
  /\ UNCHANGED errPasses
  /\ IF StartsWithDesign(feed[cursor + 1].id)
     THEN UNCHANGED <<lpc, change>>
     ELSE /\ lpc' = "queue"
          /\ change' = feed[cursor + 1]
  /\ UNCHANGED <<feed, delay, changeJobs, startSeq>>
  /\ UNCHANGED otherThanListener

\* queuePackageSync(change.id, change.seq, change.deleted) returns, or throws
QueuePackageSync ==
  /\ lpc = "queue"
  /\ \/ /\ changeJobs' = changeJobs \cup {change}
        /\ lpc' = "stream"
        /\ UNCHANGED <<retries, delay, failures, errPasses>>
     \/ /\ Catch
        /\ UNCHANGED changeJobs
  /\ change' = NoChange
  /\ UNCHANGED <<feed, cursor, startSeq>>
  /\ UNCHANGED otherThanListener

\* the stream throws: a transport failure, or a connection that cannot be made
StreamFails ==
  /\ lpc = "stream"
  /\ Catch
  /\ UNCHANGED <<feed, cursor, change, changeJobs, startSeq>>
  /\ UNCHANGED otherThanListener

\* the stream ends normally: the loop reconnects
StreamEnds ==
  /\ lpc = "stream"
  /\ lpc' = "connect"
  /\ errPasses' = 0
  /\ UNCHANGED <<feed, cursor, retries, delay, change, changeJobs, startSeq, failures>>
  /\ UNCHANGED otherThanListener

\* the backoff timer fires
BackoffDone ==
  /\ lpc = "backoff"
  /\ lpc' = "connect"
  /\ UNCHANGED <<feed, cursor, retries, delay, change, changeJobs, startSeq, failures, errPasses>>
  /\ UNCHANGED otherThanListener

NextListener ==
  \/ Emit
  \/ Connect
  \/ Receive
  \/ QueuePackageSync
  \/ StreamFails
  \/ StreamEnds
  \/ BackoffDone

\* C1: while the listener streams, every non-design change that upstream emitted
\* after the listener's first stream began and that lies at or before the stream's
\* position has been enqueued as a sync job: no change is lost across a reconnect
C1_NoChangeLost ==
  (lpc = "stream" /\ startSeq # NoSeq) =>
    \A i \in (startSeq + 1)..cursor :
      ~StartsWithDesign(feed[i].id) => \E j \in changeJobs : j.seq = i

PAGE_SIZE == 10000
BATCH_SIZE == 500
TICK_INTERVAL == 5000

Max(a, b) == IF a > b THEN a ELSE b

\* number of ids of a list
RECURSIVE RunsLen(_)
RunsLen(L) == IF L = <<>> THEN 0 ELSE (L[1][2] - L[1][1] + 1) + RunsLen(Tail(L))

\* a.push(...b)
RunsConcat(A, B) ==
  IF A = <<>> THEN B
  ELSE IF B = <<>> THEN A
  ELSE IF A[Len(A)][2] + 1 = B[1][1]
       THEN SubSeq(A, 1, Len(A) - 1) \o <<<<A[Len(A)][1], B[1][2]>>>> \o Tail(B)
       ELSE A \o B

\* a.shift(); without it the list keeps its first item
RunsKeep(L) == L
RunsShift(L) ==
  IF L[1][1] = L[1][2] THEN Tail(L) ELSE <<<<L[1][1] + 1, L[1][2]>>>> \o Tail(L)

\* list.slice(offset, offset + size)
RECURSIVE RunsSlice(_, _, _)
RunsSlice(L, offset, size) ==
  IF L = <<>> \/ size <= 0 THEN <<>>
  ELSE LET n == L[1][2] - L[1][1] + 1
       IN IF offset >= n THEN RunsSlice(Tail(L), offset - n, size)
          ELSE LET lo == L[1][1] + offset
                   hi == Min(L[1][2], lo + size - 1)
               IN RunsConcat(<<<<lo, hi>>>>, RunsSlice(Tail(L), 0, size - (hi - lo + 1)))

\* the rows lo..hi of the listing without the design documents; the design documents
\* are given as runs of row positions, in listing order
RECURSIVE WithoutDesign(_, _, _)
WithoutDesign(lo, hi, design) ==
  IF lo > hi THEN <<>>
  ELSE LET ds == {i \in 1..Len(design) : lo <= design[i][2] /\ design[i][1] <= hi}
       IN IF ds = {} THEN <<<<lo, hi>>>>
          ELSE LET d == design[MinOf(ds)]
               IN (IF d[1] > lo THEN <<<<lo, d[1] - 1>>>> ELSE <<>>)
                    \o WithoutDesign(d[2] + 1, hi, design)

\* GET _all_docs?limit=PAGE_SIZE&startkey=...: the rows of one page (startKey 0 is "")
PageRows(docs, startKey) ==
  LET lo == IF startKey = 0 THEN 1 ELSE startKey
      hi == Min(lo + PAGE_SIZE - 1, docs.rows)
  IN [lo |-> lo, hi |-> hi, length |-> Max(hi - lo + 1, 0)]

\* locals of getAllPackages
\* delivered, lastCount: the batches onBatch has been called with, joined, and the
\* totalSoFar of its last call
NewListing ==
  [allPackages |-> <<>>, startKey |-> 0, pagePackages |-> <<>>, more |-> TRUE,
   delivered |-> <<>>, lastCount |-> 0]

\* one pass of getAllPackages' loop, from the page's arrival to the onBatch call
FetchPage(l, docs) ==
  LET rows == PageRows(docs, l.startKey)
      filtered == WithoutDesign(rows.lo, rows.hi, docs.design)
      pagePackages ==
        IF l.startKey # 0 /\ filtered # <<>> /\ filtered[1][1] = l.startKey
        THEN RunsShift(filtered) ELSE filtered
  IN [allPackages |-> RunsConcat(l.allPackages, pagePackages),
      startKey |-> IF rows.length < PAGE_SIZE THEN l.startKey ELSE rows.hi,
      pagePackages |-> pagePackages,
      more |-> ~(rows.length < PAGE_SIZE),
      delivered |-> l.delivered, lastCount |-> l.lastCount]

\* the second argument of the onBatch call: allPackages.length; without it the length
\* of the page
totalOfPage(l) == RunsLen(l.pagePackages)
totalSoFar(l) == RunsLen(l.allPackages)

\* the call onBatch(pagePackages, allPackages.length, estimatedTotal)
onBatch(l) ==
  [l EXCEPT !.delivered = RunsConcat(@, l.pagePackages), !.lastCount = totalSoFar(l)]

\* ---- the ./state module: the BackfillState row and the stored package list ----
NoMessage == <<>>
IdleState ==
  [status |-> "idle", total |-> 0, offset |-> 0, packages |-> <<>>, errorMessage |-> NoMessage]

startBackfill(state, packages) ==
  [status |-> "running", total |-> RunsLen(packages), offset |-> 0, packages |-> packages,
   errorMessage |-> NoMessage]
updateProgress(state, newOffset) == [state EXCEPT !.offset = newOffset]
completeBackfill(state) == [state EXCEPT !.status = "completed"]
errorBackfill(state, message) == [state EXCEPT !.status = "error", !.errorMessage = message]
pauseBackfill(state) == [state EXCEPT !.status = "paused"]
resumeBackfill(state) == [state EXCEPT !.status = "running"]
resetBackfill(state) == IdleState
getPackageBatch(state, offset, size) == RunsSlice(state.packages, offset, size)

\* queueBulkSync(batch): one sync job per name, a name that is queued stays queued once.
\* The queue's names are held as a set of disjoint runs.
CoverRun(queue, run) ==
  LET touching == {r \in queue : r[1] <= run[2] + 1 /\ r[2] >= run[1] - 1}
      lo == MinOf({run[1]} \cup {r[1] : r \in touching})
      hi == 0 - MinOf({0 - run[2]} \cup {0 - r[2] : r \in touching})
  IN (queue \ touching) \cup {<<lo, hi>>}

RECURSIVE queueBulkSync(_, _)
queueBulkSync(queue, batch) ==
  IF batch = <<>> THEN queue ELSE queueBulkSync(CoverRun(queue, batch[1]), Tail(batch))

\* the backfill queue: numbers of waiting, delayed and active tick jobs
EmptyQueue == [waiting |-> 0, delayed |-> 0, active |-> 0]
QueueAddTick(queue, delayMs) ==
  IF delayMs > 0 THEN [queue EXCEPT !.delayed = @ + 1] ELSE [queue EXCEPT !.waiting = @ + 1]
\* queue.drain(delayed): removes the waiting jobs, and the delayed ones if asked to
Drain(queue, delayed) ==
  [queue EXCEPT !.waiting = 0, !.delayed = IF delayed THEN 0 ELSE @]
\* pendingJobs of checkAndScheduleBackfill, from getJobCounts("waiting", "active",
\* "delayed"); a count without the tick that is being processed leaves out "active"
PendingNotActive(queue) == queue.waiting + queue.delayed
PendingJobs(queue) == queue.waiting + queue.active + queue.delayed

MaxOps == 3

\* the callers of startBackfillProcess: a second call can be made while the first is
\* still in flight
Starters == {"s1", "s2"}

\* a registry of two full pages, 1200 packages around a block of design documents: the
\* last row of the first page is a design document and the last row of the second page
\* is a package
Registries ==
  {[rows |-> PAGE_SIZE + PAGE_SIZE, design |-> <<<<601, PAGE_SIZE + PAGE_SIZE - 600>>>>]}

IdleStart == [pc |-> "idle", listing |-> NewListing, ret |-> "none"]
\* noop: the slot's last tick returned at its test of the status
\* what the total == 0 branch can catch: the Error of getAllPackages for a response
\* that is not ok, or a value that a callee rejects with and that is no Error
NoError == [isError |-> FALSE, message |-> <<>>]
FetchError == [isError |-> TRUE, message |-> <<"Failed to fetch all docs", 503>>]
CalleeError == [isError |-> FALSE, message |-> <<"rejected">>]

IdleTick == [pc |-> "idle", offset |-> 0, total |-> 0, listing |-> NewListing,
             packages |-> <<>>, noop |-> FALSE, error |-> NoError]
NoHandlers == [read |-> 0, add |-> 0]
NotPaused == <<>>

\* where getAllPackages goes after a page has arrived, and after its onBatch call
AfterPage(l) ==
  IF l.pagePackages # <<>> THEN "onBatch" ELSE IF l.more THEN "fetch" ELSE "store"
AfterBatch(l) == IF l.more THEN "fetch" ELSE "store"

\* the guard of startBackfillProcess
StartNeverRejected(state) == FALSE
StartRejected(state) == state.status = "running"

\* createWorker(..., { concurrency: 1 }): the ticks one worker executes at a time; the
\* model has room for two
singleFlightOff == 1 + 1
concurrency == 1
TickSlots == {1, 2}

\* the guard of processBackfillTick; a tick without it goes on whatever the status
TickAlwaysProceeds(state) == TRUE
TickProceeds(state) == ~(state.status # "running")

IdleBackfill ==
  /\ registry = [rows |-> 0, design |-> <<>>]
  /\ bstate = IdleState
  /\ syncQueue = {}
  /\ start = [p \in Starters |-> IdleStart]
  /\ ctl = "idle"
  /\ tickQueue = EmptyQueue
  /\ tick = [t \in TickSlots |-> IdleTick]
  /\ sched = NoHandlers
  /\ startup = "done"
  /\ opCalls = MaxOps
  /\ startOk = FALSE
  /\ tickFailed = FALSE
  /\ checkAdded = 0
  /\ atPause = NotPaused

StartBackfill ==
  /\ registry \in Registries
  /\ bstate = IdleState
  /\ syncQueue = {}
  /\ start = [p \in Starters |-> IdleStart]
  /\ ctl = "idle"
  /\ tickQueue = EmptyQueue
  /\ tick = [t \in TickSlots |-> IdleTick]
  /\ sched = NoHandlers
  /\ startup = "off"
  /\ opCalls = 0
  /\ startOk = FALSE
  /\ tickFailed = FALSE
  /\ checkAdded = 0
  /\ atPause = NotPaused

\* ---- startBackfillProcess ----
\* the call and its getBackfillState: rejected, or on to the listing
StartCall(p) ==
  /\ start[p].pc = "idle"
  /\ p = "s1" \/ start["s1"].pc # "idle"
  /\ opCalls < MaxOps
  /\ opCalls' = opCalls + 1
  /\ startOk' = FALSE
  /\ tickFailed' = FALSE
  /\ start' = [start EXCEPT ![p] =
                 IF StartRejected(bstate)
                 THEN [IdleStart EXCEPT !.ret = "already running"]
                 ELSE [pc |-> "fetch", listing |-> NewListing, ret |-> "none"]]
  /\ UNCHANGED <<registry, bstate, syncQueue, ctl, tickQueue, tick, sched, startup>>
  /\ atPause' = NotPaused
  /\ UNCHANGED checkAdded
  /\ UNCHANGED otherThanBackfill

\* a page of the listing arrives, or the fetch fails and the call throws
StartFetch(p) ==
  /\ start[p].pc = "fetch"
  /\ \/ LET l == FetchPage(start[p].listing, registry)
        IN start' = [start EXCEPT ![p] = [@ EXCEPT !.pc = AfterPage(l), !.listing = l]]
     \/ start' = [start EXCEPT ![p] = [IdleStart EXCEPT !.ret = "failed"]]
  /\ UNCHANGED <<registry, bstate, syncQueue, ctl, tickQueue, tick, sched, startup,
                 opCalls, startOk, tickFailed, checkAdded, atPause>>
  /\ UNCHANGED otherThanBackfill

\* onBatch: queueBulkSync(batch) returns, or throws
StartOnBatch(p) ==
  /\ start[p].pc = "onBatch"
  /\ \/ /\ syncQueue' = queueBulkSync(syncQueue, start[p].listing.pagePackages)
        /\ start' = [start EXCEPT ![p] = [@ EXCEPT !.pc = AfterBatch(start[p].listing),
                                                  !.listing = onBatch(@)]]
     \/ /\ start' = [start EXCEPT ![p] = [IdleStart EXCEPT !.ret = "failed"]]
        /\ UNCHANGED syncQueue
  /\ UNCHANGED <<registry, bstate, ctl, tickQueue, tick, sched, startup, opCalls, startOk, tickFailed, checkAdded, atPause>>
  /\ UNCHANGED otherThanBackfill

\* startBackfill(packages)
StartStore(p) ==
  /\ start[p].pc = "store"
  /\ bstate' = startBackfill(bstate, start[p].listing.allPackages)
  /\ start' = [start EXCEPT ![p] = [@ EXCEPT !.pc = "progress"]]
  /\ UNCHANGED <<registry, syncQueue, ctl, tickQueue, tick, sched, startup, opCalls,
                 startOk, tickFailed, checkAdded, atPause>>
  /\ UNCHANGED otherThanBackfill

\* updateProgress(packages.length, 0, packages.length), and the return
StartProgress(p) ==
  /\ start[p].pc = "progress"
  /\ bstate' = updateProgress(bstate, RunsLen(start[p].listing.allPackages))
  /\ start' = [start EXCEPT ![p] = [IdleStart EXCEPT !.ret = "ok"]]
  /\ startOk' = TRUE
  /\ UNCHANGED <<registry, syncQueue, ctl, tickQueue, tick, sched, startup, opCalls,
                 tickFailed, checkAdded, atPause>>
  /\ UNCHANGED otherThanBackfill

\* ---- pause, resume, reset ----
PauseBackfillProcess ==
  /\ ctl = "idle"
  /\ opCalls < MaxOps
  /\ opCalls' = opCalls + 1
  /\ startOk' = FALSE
  /\ tickFailed' = FALSE
  /\ bstate' = pauseBackfill(bstate)
  /\ UNCHANGED <<registry, syncQueue, start, ctl, tickQueue, tick, sched, startup>>
  /\ atPause' = <<bstate.offset, bstate.total>>
  /\ UNCHANGED checkAdded
  /\ UNCHANGED otherThanBackfill

\* resumeBackfillProcess up to its queue.add
ResumeBackfillProcess ==
  /\ ctl = "idle"
  /\ opCalls < MaxOps
  /\ opCalls' = opCalls + 1
  /\ startOk' = FALSE
  /\ tickFailed' = FALSE
  /\ bstate' = resumeBackfill(bstate)
  /\ ctl' = "resumeAdd"
  /\ UNCHANGED <<registry, syncQueue, start, tickQueue, tick, sched, startup>>
  /\ UNCHANGED <<checkAdded, atPause>>
  /\ UNCHANGED otherThanBackfill

ResumeAdd ==
  /\ ctl = "resumeAdd"
  /\ tickQueue' = QueueAddTick(tickQueue, 0)
  /\ ctl' = "idle"
  /\ atPause' = NotPaused
  /\ UNCHANGED <<registry, bstate, syncQueue, start, tick, sched, startup, opCalls,
                 startOk, tickFailed, checkAdded>>
  /\ UNCHANGED otherThanBackfill

\* resetBackfillProcess up to its queue.drain
ResetBackfillProcess ==
  /\ ctl = "idle"
  /\ opCalls < MaxOps
  /\ opCalls' = opCalls + 1
  /\ startOk' = FALSE
  /\ tickFailed' = FALSE
  /\ bstate' = resetBackfill(bstate)
  /\ ctl' = "drain"
  /\ UNCHANGED <<registry, syncQueue, start, tickQueue, tick, sched, startup>>
  /\ atPause' = NotPaused
  /\ UNCHANGED checkAdded
  /\ UNCHANGED otherThanBackfill

ResetDrain ==
  /\ ctl = "drain"
  /\ tickQueue' = Drain(tickQueue, FALSE)
  /\ ctl' = "idle"
  /\ UNCHANGED <<registry, bstate, syncQueue, start, tick, sched, startup, opCalls,
                 startOk, tickFailed, checkAdded, atPause>>
  /\ UNCHANGED otherThanBackfill

\* ---- the worker: processBackfillTick, run by createWorker with its concurrency ----
\* the tick's return or throw: the job leaves the queue and the worker's "completed" or
\* "failed" handler calls scheduleNextTick
TickEnds(t) ==
  /\ tick' = [tick EXCEPT ![t] = IdleTick]
  /\ tickQueue' = [tickQueue EXCEPT !.active = @ - 1]
  /\ sched' = [sched EXCEPT !.read = @ + 1]

\* the tick returns at its test of the status
TickNoOp(t) ==
  /\ tick' = [tick EXCEPT ![t] = [IdleTick EXCEPT !.noop = TRUE]]
  /\ tickQueue' = [tickQueue EXCEPT !.active = @ - 1]
  /\ sched' = [sched EXCEPT !.read = @ + 1]

\* the tick throws: it ends as above, by the "failed" handler
TickThrows(t) ==
  /\ TickEnds(t)
  /\ tickFailed' = (tickFailed \/ bstate.status = "running")

\* the worker takes a waiting tick; processBackfillTick up to its first getBackfillState
TickBegin(t) ==
  /\ startup # "off"
  /\ tick[t].pc = "idle"
  /\ \A u \in TickSlots : u < t => tick[u].pc # "idle"
  /\ tickQueue.active < concurrency
  /\ tickQueue.waiting > 0
  /\ tickQueue' = [tickQueue EXCEPT !.waiting = @ - 1, !.active = @ + 1]
  /\ tick' = [tick EXCEPT ![t] = [IdleTick EXCEPT !.pc = "read"]]
  /\ tickFailed' = FALSE
  /\ UNCHANGED <<registry, bstate, syncQueue, start, ctl, sched, startup, opCalls, startOk>>
  /\ UNCHANGED <<checkAdded, atPause>>
  /\ UNCHANGED otherThanBackfill

\* state = await getBackfillState() and the two tests on it, or the read throws
TickRead(t) ==
  /\ tick[t].pc = "read"
  /\ \/ /\ IF ~TickProceeds(bstate) THEN TickNoOp(t)
           ELSE /\ tick' = [tick EXCEPT ![t].pc =
                                IF bstate.total = 0 THEN "fetch" ELSE "reread"]
                /\ UNCHANGED <<tickQueue, sched>>
        /\ UNCHANGED tickFailed
     \/ TickThrows(t)
  /\ UNCHANGED <<registry, bstate, syncQueue, start, ctl, startup, opCalls, startOk,
                 checkAdded, atPause>>
  /\ UNCHANGED otherThanBackfill

\* total == 0: a page of the listing arrives, or the fetch fails and is caught
TickFetch(t) ==
  /\ tick[t].pc = "fetch"
  /\ \/ LET l == FetchPage(tick[t].listing, registry)
        IN tick' = [tick EXCEPT ![t].pc = AfterPage(l), ![t].listing = l]
     \/ tick' = [tick EXCEPT ![t].pc = "error", ![t].error = FetchError]
  /\ UNCHANGED <<registry, bstate, syncQueue, start, ctl, tickQueue, sched, startup,
                 opCalls, startOk, tickFailed, checkAdded, atPause>>
  /\ UNCHANGED otherThanBackfill

\* total == 0: onBatch, queueBulkSync(batch) returns or throws into the catch
TickOnBatch(t) ==
  /\ tick[t].pc = "onBatch"
  /\ \/ /\ syncQueue' = queueBulkSync(syncQueue, tick[t].listing.pagePackages)
        /\ tick' = [tick EXCEPT ![t].pc = AfterBatch(tick[t].listing),
                                ![t].listing = onBatch(@)]
     \/ /\ tick' = [tick EXCEPT ![t].pc = "error", ![t].error = CalleeError]
        /\ UNCHANGED syncQueue
  /\ UNCHANGED <<registry, bstate, start, ctl, tickQueue, sched, startup, opCalls, startOk, tickFailed, checkAdded, atPause>>
  /\ UNCHANGED otherThanBackfill

\* total == 0: startBackfill(packages) returns or throws into the catch
TickStore(t) ==
  /\ tick[t].pc = "store"
  /\ \/ /\ bstate' = startBackfill(bstate, tick[t].listing.allPackages)
        /\ tick' = [tick EXCEPT ![t].pc = "progress"]
     \/ /\ tick' = [tick EXCEPT ![t].pc = "error", ![t].error = CalleeError]
        /\ UNCHANGED bstate
  /\ UNCHANGED <<registry, syncQueue, start, ctl, tickQueue, sched, startup, opCalls,
                 startOk, tickFailed, checkAdded, atPause>>
  /\ UNCHANGED otherThanBackfill

\* the offset that marks all names as queued: packages.length; without it the offset
\* stays where startBackfill put it
offsetAtStart(packages) == 0
offsetAllQueued(packages) == RunsLen(packages)

\* total == 0: updateProgress(packages.length, 0, packages.length)
TickProgress(t) ==
  /\ tick[t].pc = "progress"
  /\ bstate' = updateProgress(bstate, offsetAllQueued(tick[t].listing.allPackages))
  /\ tick' = [tick EXCEPT ![t].pc = "complete"]
  /\ UNCHANGED <<registry, syncQueue, start, ctl, tickQueue, sched, startup, opCalls,
                 startOk, tickFailed, checkAdded, atPause>>
  /\ UNCHANGED otherThanBackfill

\* the tick is in its total == 0 branch, inside the try
Initializing(t) == tick[t].listing # NewListing

\* completeBackfill(), and the return
TickComplete(t) ==
  /\ tick[t].pc = "complete"
  /\ bstate' = completeBackfill(bstate)
  /\ TickEnds(t)
  /\ UNCHANGED <<registry, syncQueue, start, ctl, startup, opCalls, startOk, tickFailed, checkAdded, atPause>>
  /\ UNCHANGED otherThanBackfill

\* error instanceof Error ? error.message : "Unknown error"
alwaysUnknownError(error) == <<"Unknown error">>
messageOf(error) == IF error.isError THEN error.message ELSE <<"Unknown error">>

\* the catch of the total == 0 branch: errorBackfill(message), and the return
TickError(t) ==
  /\ tick[t].pc = "error"
  /\ bstate' = errorBackfill(bstate, messageOf(tick[t].error))
  /\ TickEnds(t)
  /\ UNCHANGED <<registry, syncQueue, start, ctl, startup, opCalls, startOk, tickFailed, checkAdded, atPause>>
  /\ UNCHANGED otherThanBackfill

\* currentState = await getBackfillState() and the test offset >= total, or the read throws
TickReread(t) ==
  /\ tick[t].pc = "reread"
  /\ \/ /\ tick' = [tick EXCEPT
                       ![t].pc = IF bstate.offset >= bstate.total THEN "complete" ELSE "batch",
                       ![t].offset = bstate.offset, ![t].total = bstate.total]
        /\ UNCHANGED <<tickQueue, sched, tickFailed>>
     \/ TickThrows(t)
  /\ UNCHANGED <<registry, bstate, syncQueue, start, ctl, startup, opCalls, startOk,
                 checkAdded, atPause>>
  /\ UNCHANGED otherThanBackfill

\* packages = await getPackageBatch(currentState.offset, BATCH_SIZE), or it throws
TickBatch(t) ==
  /\ tick[t].pc = "batch"
  /\ \/ /\ LET packages == getPackageBatch(bstate, tick[t].offset, BATCH_SIZE)
           IN tick' = [tick EXCEPT
                         ![t].pc = IF RunsLen(packages) = 0 THEN "complete" ELSE "queue",
                         ![t].packages = packages]
        /\ UNCHANGED <<tickQueue, sched, tickFailed>>
     \/ TickThrows(t)
  /\ UNCHANGED <<registry, bstate, syncQueue, start, ctl, startup, opCalls, startOk,
                 checkAdded, atPause>>
  /\ UNCHANGED otherThanBackfill

\* queueBulkSync(packages) returns, or throws and the tick fails
TickQueue(t) ==
  /\ tick[t].pc = "queue"
  /\ \/ /\ syncQueue' = queueBulkSync(syncQueue, tick[t].packages)
        /\ tick' = [tick EXCEPT ![t].pc = "update"]
        /\ UNCHANGED <<tickQueue, sched, tickFailed>>
     \/ /\ TickThrows(t)
        /\ UNCHANGED syncQueue
  /\ UNCHANGED <<registry, bstate, start, ctl, startup, opCalls, startOk,
                 checkAdded, atPause>>
  /\ UNCHANGED otherThanBackfill

\* newOffset = currentState.offset + packages.length; an offset advanced by the batch
\* size instead jumps over the end of a short last batch
offsetPlusBatchSize(offset, packages) == offset + BATCH_SIZE
newOffset(offset, packages) == offset + RunsLen(packages)

\* updateProgress(packages.length, 0, newOffset) and the return, or it throws
TickUpdate(t) ==
  /\ tick[t].pc = "update"
  /\ \/ /\ bstate' = updateProgress(bstate, newOffset(tick[t].offset, tick[t].packages))
        /\ TickEnds(t)
        /\ UNCHANGED tickFailed
     \/ /\ TickThrows(t)
        /\ UNCHANGED bstate
  /\ UNCHANGED <<registry, syncQueue, start, ctl, startup, opCalls, startOk>>
  /\ UNCHANGED <<checkAdded, atPause>>
  /\ UNCHANGED otherThanBackfill

\* ---- scheduleNextTick, called by the worker's completed and failed handlers ----
\* state = await getBackfillState() and the test on the status; the handlers call
\* scheduleNextTick() without a catch, so a read that rejects ends it there
ScheduleRead ==
  /\ sched.read > 0
  /\ \/ sched' = [read |-> sched.read - 1,
                  add |-> IF bstate.status # "running" THEN sched.add ELSE sched.add + 1]
     \/ sched' = [sched EXCEPT !.read = @ - 1]
  /\ UNCHANGED <<registry, bstate, syncQueue, start, ctl, tickQueue, tick, startup,
                 opCalls, startOk, tickFailed, checkAdded, atPause>>
  /\ UNCHANGED otherThanBackfill

\* queue.add("tick", {}, {delay: TICK_INTERVAL}), or the add rejects
ScheduleAdd ==
  /\ sched.add > 0
  /\ sched' = [sched EXCEPT !.add = @ - 1]
  /\ \/ tickQueue' = QueueAddTick(tickQueue, TICK_INTERVAL)
     \/ UNCHANGED tickQueue
  /\ UNCHANGED <<registry, bstate, syncQueue, start, ctl, tick, startup, opCalls, startOk, tickFailed, checkAdded, atPause>>
  /\ UNCHANGED otherThanBackfill

\* the delay of a delayed tick elapses
DelayElapses ==
  /\ tickQueue.delayed > 0
  /\ tickQueue' = [tickQueue EXCEPT !.delayed = @ - 1, !.waiting = @ + 1]
  /\ UNCHANGED <<registry, bstate, syncQueue, start, ctl, tick, sched, startup, opCalls,
                 startOk, tickFailed, checkAdded, atPause>>
  /\ UNCHANGED otherThanBackfill

\* ---- createBackfillWorker and its checkAndScheduleBackfill ----
CreateBackfillWorker ==
  /\ startup = "off"
  /\ startup' = "read"
  /\ UNCHANGED <<registry, bstate, syncQueue, start, ctl, tickQueue, tick, sched, opCalls,
                 startOk, tickFailed, checkAdded, atPause>>
  /\ UNCHANGED otherThanBackfill

CheckRead ==
  /\ startup = "read"
  /\ startup' = IF bstate.status = "running" THEN "counts" ELSE "done"
  /\ UNCHANGED <<registry, bstate, syncQueue, start, ctl, tickQueue, tick, sched, opCalls,
                 startOk, tickFailed, checkAdded, atPause>>
  /\ UNCHANGED otherThanBackfill

CheckCounts ==
  /\ startup = "counts"
  /\ startup' = IF PendingJobs(tickQueue) = 0 THEN "add" ELSE "done"
  /\ UNCHANGED <<registry, bstate, syncQueue, start, ctl, tickQueue, tick, sched, opCalls,
                 startOk, tickFailed, checkAdded, atPause>>
  /\ UNCHANGED otherThanBackfill

CheckAdd ==
  /\ startup = "add"
  /\ tickQueue' = QueueAddTick(tickQueue, 0)
  /\ startup' = "done"
  /\ checkAdded' = checkAdded + 1
  /\ UNCHANGED <<registry, bstate, syncQueue, start, ctl, tick, sched, opCalls, startOk,
                 tickFailed>>
  /\ UNCHANGED atPause
  /\ UNCHANGED otherThanBackfill

NextBackfill ==
  \/ \E p \in Starters : StartCall(p)
  \/ \E p \in Starters : StartFetch(p)
  \/ \E p \in Starters : StartOnBatch(p)
  \/ \E p \in Starters : StartStore(p)
  \/ \E p \in Starters : StartProgress(p)
  \/ PauseBackfillProcess
  \/ ResumeBackfillProcess
  \/ ResumeAdd
  \/ ResetBackfillProcess
  \/ ResetDrain
  \/ \E t \in TickSlots : TickBegin(t)
  \/ \E t \in TickSlots : TickRead(t)
  \/ \E t \in TickSlots : TickFetch(t)
  \/ \E t \in TickSlots : TickOnBatch(t)
  \/ \E t \in TickSlots : TickStore(t)
  \/ \E t \in TickSlots : TickProgress(t)
  \/ \E t \in TickSlots : TickComplete(t)
  \/ \E t \in TickSlots : TickError(t)
  \/ \E t \in TickSlots : TickReread(t)
  \/ \E t \in TickSlots : TickBatch(t)
  \/ \E t \in TickSlots : TickQueue(t)
  \/ \E t \in TickSlots : TickUpdate(t)
  \/ ScheduleRead
  \/ ScheduleAdd
  \/ DelayElapses
  \/ CreateBackfillWorker
  \/ CheckRead
  \/ CheckCounts
  \/ CheckAdd

\* C2: a startBackfillProcess call made while status is running fails with the
\* "already running" error and has no other effect: the caller does not enter the
\* listing, no sync job is enqueued, BackfillState and the tick queue stay as they are
C2_StartRejectedNoEffect ==
  [][\A p \in Starters :
       (start[p].pc = "idle" /\ start'[p] # start[p] /\ bstate.status = "running") =>
         /\ start'[p].pc = "idle"
         /\ start'[p].ret = "already running"
         /\ bstate' = bstate
         /\ syncQueue' = syncQueue
         /\ tickQueue' = tickQueue]_vars

\* a start call has been rejected and the backfill it met is still running
C2_Witness ==
  \E p \in Starters :
    start[p].pc = "idle" /\ start[p].ret = "already running" /\ bstate.status = "running"

\* C3: status never changes from completed or from error to running in one step, that
\* is, without a reset to idle in between
C3_NoRestartWithoutReset ==
  [][bstate.status \in {"completed", "error"} => bstate'.status # "running"]_vars

\* C4: whenever status is running, 0 <= offset <= total
C4_OffsetWithinTotal ==
  bstate.status = "running" => (0 <= bstate.offset /\ bstate.offset <= bstate.total)

\* the worker, its handlers and every operator call have run to their end and the
\* backfill queue holds no tick: nothing happens until the next operator call
Quiescent ==
  /\ \A p \in Starters : start[p].pc = "idle"
  /\ ctl = "idle"
  /\ \A t \in TickSlots : tick[t].pc = "idle"
  /\ PendingJobs(tickQueue) = 0
  /\ sched = NoHandlers
  /\ startup = "done"

\* C5: after startBackfillProcess has returned successfully, status becomes completed
\* without a further operator call: when the system has come to rest after the return,
\* status is completed
C5_CompletesAfterStart ==
  (startOk /\ Quiescent) => bstate.status = "completed"

\* C13: resetBackfillProcess, called from any status, leaves BackfillState with status
\* idle, offset 0 and total 0, and leaves no waiting or delayed tick in the backfill
\* queue: this is the state in which the call returns
C13_ResetLeavesIdle ==
  [][(ctl = "drain" /\ ctl' = "idle") =>
       /\ bstate'.status = "idle"
       /\ bstate'.offset = 0
       /\ bstate'.total = 0
       /\ tickQueue'.waiting = 0
       /\ tickQueue'.delayed = 0]_vars

Executing == {t \in TickSlots : tick[t].pc # "idle"}

\* C14: at most one tick executes at any time, whatever scheduleNextTick,
\* resumeBackfillProcess and the startup check have added to the queue
C14_SingleFlight == Cardinality(Executing) <= 1

\* a tick is executing while another tick waits in the queue
C14_Witness == Cardinality(Executing) = 1 /\ tickQueue.waiting > 0

\* the list holds every id of the registry that is not a design document, each
\* once and in the order of the listing
ListsEveryPackageOnce(L, docs) ==
  /\ \A i \in 1..Len(L) :
       /\ 1 <= L[i][1] /\ L[i][1] <= L[i][2] /\ L[i][2] <= docs.rows
       /\ \A d \in 1..Len(docs.design) :
            docs.design[d][2] < L[i][1] \/ docs.design[d][1] > L[i][2]
       /\ i < Len(L) => L[i][2] < L[i + 1][1]
  /\ RunsLen(L) = docs.rows - RunsLen(docs.design)

\* C18: getAllPackages has returned, to startBackfillProcess or to a tick, a list
\* that holds every id that is not a design document exactly once and in listing
\* order; and every page that is followed by another moves the start key forward,
\* so the loop ends
C18_ListsEveryPackageOnce ==
  /\ [](\A p \in Starters :
         start[p].pc = "store" =>
           ListsEveryPackageOnce(start[p].listing.allPackages, registry))
  /\ [](\A t \in TickSlots :
         tick[t].pc = "store" =>
           ListsEveryPackageOnce(tick[t].listing.allPackages, registry))
  /\ [][\A p \in Starters :
          (start[p].pc = "fetch" /\ start'[p].pc \notin {"fetch", "idle"}
              /\ start'[p].listing.more) =>
            /\ start'[p].listing.startKey > start[p].listing.startKey
            /\ start'[p].listing.startKey <= registry.rows]_vars

\* the listing of a registry of two full pages has returned: the row count is a
\* multiple of the page size, the last row of the first page is a design document
\* and the last row of the second page is a package
C18_Witness ==
  /\ registry.rows = PAGE_SIZE + PAGE_SIZE
  /\ \E p \in Starters :
       /\ start[p].pc = "store"
       /\ start[p].listing.startKey = PAGE_SIZE + PAGE_SIZE - 1
       /\ start[p].listing.allPackages =
            <<<<1, 600>>, <<PAGE_SIZE + PAGE_SIZE - 599, PAGE_SIZE + PAGE_SIZE>>>>

\* the worker and every call are at rest: nothing but a queued tick can act
AtRest ==
  /\ Quiescent
  /\ sched = NoHandlers
  /\ ctl = "idle"
  /\ \A p \in Starters : start[p].pc = "idle"
  /\ startup = "done"

\* C15: when a tick throws while the status is running, the tick leaves the offset
\* as it was, and once the worker's handlers have finished a next tick is pending
\* as long as the status is still running
C15_FailedTickRescheduled ==
  [][/\ (~tickFailed /\ tickFailed') => bstate'.offset = bstate.offset
     /\ (tickFailed /\ bstate.status = "running" /\ AtRest)' =>
          PendingJobs(tickQueue') > 0]_vars

C22_IdleTickNoOp ==
  [][/\ \A t \in TickSlots :
          (tick[t].pc = "read" /\ tick'[t].pc # "read" /\ bstate.status # "running") =>
            /\ tick'[t].pc = "idle"
            /\ bstate' = bstate
            /\ syncQueue' = syncQueue
            /\ tickQueue'.waiting = tickQueue.waiting
            /\ tickQueue'.delayed = tickQueue.delayed
     /\ (sched'.read < sched.read /\ bstate.status # "running") =>
          /\ sched'.add = sched.add
          /\ tickQueue' = tickQueue
          /\ bstate' = bstate]_vars

\* a tick has returned at its test of the status, the handler that followed it is
\* done, the status is paused and no tick is left in the queue
C22_Witness ==
  /\ \E t \in TickSlots : tick[t].noop /\ tick[t].pc = "idle"
  /\ bstate.status = "paused"
  /\ sched = NoHandlers
  /\ PendingJobs(tickQueue) = 0

\* C23: when resumeBackfillProcess returns and the call before it was
\* pauseBackfillProcess, offset and total are what they were at the pause, the status
\* is running and a tick is in the queue or executing
C23_PauseResumeKeepsProgress ==
  [][(ctl = "resumeAdd" /\ ctl' = "idle" /\ atPause # NotPaused) =>
       /\ bstate'.offset = atPause[1]
       /\ bstate'.total = atPause[2]
       /\ bstate'.status = "running"
       /\ PendingJobs(tickQueue') > 0]_vars

\* every name of the list is in the sync queue
AllEnqueued(queue, L) ==
  \A i \in 1..Len(L) : \E r \in queue : r[1] <= L[i][1] /\ L[i][2] <= r[2]

\* the stored names at the positions offset .. offset + n - 1
StoredNames(state, offset, n) == RunsSlice(state.packages, offset, n)

\* C26: a tick that finds status running and 0 <= offset < total takes the stored names
\* at the positions offset .. offset+n-1, n = min(500, total - offset), as its batch,
\* enqueues exactly these and then, unless the write fails, sets offset to offset+n;
\* and in every state every stored name at a position below offset has been enqueued
C26_TickBatchAdvances ==
  /\ [](AllEnqueued(syncQueue, StoredNames(bstate, 0, bstate.offset)))
  /\ [][\A t \in TickSlots :
          LET n == Min(BATCH_SIZE, tick[t].total - tick[t].offset)
          IN /\ (/\ tick[t].pc = "batch" /\ tick'[t].pc \in {"queue", "complete"}
                 /\ bstate.status = "running"
                 /\ bstate.offset = tick[t].offset /\ bstate.total = tick[t].total) =>
                  /\ tick[t].offset >= 0 /\ tick[t].offset < tick[t].total
                  /\ tick'[t].pc = "queue"
                  /\ tick'[t].packages = StoredNames(bstate, tick[t].offset, n)
                  /\ RunsLen(tick'[t].packages) = n
             /\ (tick[t].pc = "queue" /\ tick'[t].pc = "update") =>
                  /\ syncQueue' = queueBulkSync(syncQueue, tick[t].packages)
                  /\ AllEnqueued(syncQueue', tick[t].packages)
                  /\ bstate' = bstate
             /\ (tick[t].pc = "update" /\ tick'[t].pc = "idle") =>
                  /\ \/ bstate' = bstate
                     \/ bstate' = [bstate EXCEPT
                                     !.offset = tick[t].offset + RunsLen(tick[t].packages)]
                  /\ (/\ bstate.status = "running" /\ bstate.offset = tick[t].offset
                      /\ ~tickFailed /\ ~tickFailed') => bstate' # bstate
                  /\ syncQueue' = syncQueue]_vars

\* two ticks in a row have each enqueued a batch of 500 and advanced offset, to 1000 of
\* 1200
C26_Witness ==
  /\ bstate.status = "running"
  /\ bstate.total = 1200
  /\ bstate.offset = BATCH_SIZE + BATCH_SIZE
  /\ \A t \in TickSlots : tick[t].pc = "idle"
  /\ AllEnqueued(syncQueue, StoredNames(bstate, 0, bstate.offset))

\* C27: a tick whose write advances offset to a value >= total has set status to
\* completed when it ends
C27_CompletesInSameTick ==
  [][\A t \in TickSlots :
       (/\ tick[t].pc = "update" /\ tick'[t].pc = "idle"
        /\ bstate'.offset # bstate.offset
        /\ bstate'.offset >= bstate'.total) => bstate'.status = "completed"]_vars

TickStep == tick' # tick \/ sched' # sched

Listing == {p \in Starters : start[p].pc \in {"fetch", "onBatch"}}

\* C30: a startBackfillProcess call made while another call is still listing and
\* enqueueing is rejected, so that at most one call is listing at any time
C30_OneListingAtATime ==
  /\ [](Cardinality(Listing) <= 1)
  /\ [][\A p \in Starters :
          (start[p].pc = "idle" /\ start'[p] # start[p] /\ Listing # {}) =>
            start'[p].pc = "idle" /\ start'[p].ret = "already running"]_vars

\* C31: the backfill queue holds at most one pending tick (waiting, delayed or active)
C31_OnePendingTick == PendingJobs(tickQueue) <= 1

\* C32: once resetBackfillProcess has returned, no step of a tick writes BackfillState:
\* the status stays idle with offset 0 and total 0
C32_NoTickWriteAfterReset ==
  [][(/\ bstate.status = "idle" /\ bstate.offset = 0 /\ bstate.total = 0
      /\ ctl = "idle"
      /\ tick' # tick) =>
       bstate'.status = "idle" /\ bstate'.offset = 0 /\ bstate'.total = 0]_vars

\* C33: the listener's loop makes at most 10 passes in a row that end in an error,
\* errors of queuePackageSync included, before it stops with its fatal error
C33_StopsAfterTenErrorPasses == errPasses <= maxRetries

\* what holds of the locals l of a getAllPackages call that is at pc
ListingInOrder(pc, l) ==
  /\ l.lastCount = RunsLen(l.delivered)
  /\ pc = "fetch" => l.delivered = l.allPackages /\ AllEnqueued(syncQueue, l.allPackages)
  /\ pc = "onBatch" => RunsConcat(l.delivered, l.pagePackages) = l.allPackages
  /\ pc \in {"store", "progress"} => l.delivered = l.allPackages

\* C34: during a listing the names of page k are in the sync queue before page k+1 is
\* fetched; the batches passed to onBatch, joined, are the returned list; and the
\* cumulative count of each onBatch call is the number of names delivered so far
C34_BatchesInOrder ==
  /\ \A p \in Starters : ListingInOrder(start[p].pc, start[p].listing)
  /\ \A t \in TickSlots : ListingInOrder(tick[t].pc, tick[t].listing)

\* a listing of three pages has returned after two onBatch calls with 600 names each
C34_Witness ==
  \E p \in Starters :
    /\ start[p].pc = "store"
    /\ start[p].listing.delivered = <<<<1, 600>>, <<PAGE_SIZE + PAGE_SIZE - 599, PAGE_SIZE + PAGE_SIZE>>>>
    /\ start[p].listing.lastCount = 1200
    /\ AllEnqueued(syncQueue, start[p].listing.allPackages)

\* the dependencies with a range npm:target@range that the resolved versions declare
AliasDeps(R) ==
  UNION {LET vd == VersionData(R[e.name], e.version)
             deps == MergeDeps(vd.dependencies, vd.optionalDependencies)
         IN {deps[k] : k \in {j \in 1..Len(deps) :
                                 deps[j][2].kind = "npm" /\ deps[j][2].inner # NoRange}} :
         e \in tree.resolved}

\* C35: a dependency declared as npm:target@range is resolved against the versions of
\* the target package, and the resolved set records the target's name, version and
\* unpacked size
C35_AliasResolvesTarget ==
  (Returned /\ ~aborted /\ Cardinality(tree.resolved) < MAX_PACKAGES) =>
    \A dep \in AliasDeps(Registry(reg)) :
      LET R == Registry(reg)
          target == dep[2].target
          version == resolveVersion(dep[2].inner, Versions(R[target]))
      IN (target \in DOMAIN R /\ version # NoVersion) =>
           \E e \in tree.resolved :
             /\ e.name = target
             /\ e.version = version
             /\ e.size = RegSize(R, target, version)

\* a list of the claim allows the target: it is empty, or it does not hold the negated
\* target and its positive entries, if it has any, include the target
ListKeeps(list, target) ==
  \/ Len(list) = 0
  \/ /\ \A k \in 1..Len(list) : list[k] # Not(target)
     /\ \/ \A k \in 1..Len(list) : list[k].neg
        \/ \E k \in 1..Len(list) : list[k] = Plat(target)

\* C36: a version is kept only if linux/x64/glibc is allowed by each of its os, cpu and
\* libc lists: a list that holds the negated target, or that has positive entries none
\* of which is the target, excludes the version whatever else it holds
C36_PlatformListsExclude ==
  \A e \in tree.resolved :
    LET vd == VersionData(Registry(reg)[e.name], e.version)
    IN /\ ListKeeps(vd.os, "linux")
       /\ ListKeeps(vd.cpu, "x64")
       /\ ListKeeps(vd.libc, "glibc")

\* the names of a level are all different
DistinctNames(level) == Cardinality(LevelNames(level)) = Len(level)

\* C37: resolveDependencyTree terminates on every registry, cycles and self-dependencies
\* included, and no name is processed in more than one level: the names of a level are
\* distinct, no name of the next level has been seen, and every step of the traversal
\* ends it, completes a fetch of the batch, moves to the next batch of the level, or
\* enters a level of names none of which was seen before
C37_EachNameInOneLevel ==
  /\ [](rpc = "tree" =>
          /\ DistinctNames(currentLevel)
          /\ DistinctNames(tree.nextLevel)
          /\ LevelNames(currentLevel) \subseteq tree.seen
          /\ LevelNames(tree.nextLevel) \cap tree.seen = {})
  /\ [][(rpc = "tree" /\ aborted' = aborted) =>
          \/ rpc' = "done"
          \/ /\ currentLevel' = currentLevel
             /\ batchStart' = batchStart
             /\ pending' # pending /\ pending' \subseteq pending
          \/ /\ currentLevel' = currentLevel
             /\ batchStart' > batchStart
          \/ /\ currentLevel' # <<>>
             /\ LevelNames(currentLevel') \cap tree.seen = {}
             /\ tree'.seen = tree.seen \cup LevelNames(currentLevel')]_vars

\* the traversal of the registry with the cycle a -> b -> a and the self-dependencies
\* of a and c has returned with a, b and c resolved
C37_Witness ==
  /\ Returned /\ ~aborted /\ reg = "cycle" /\ rootName = "a"
  /\ ResolvedPairs = {<<"a", v100>>, <<"b", v110>>, <<"c", v100>>}

\* the update of a call was delivered to the user on some channel
Delivered(userId, data) ==
  \/ \E r \in notification :
       /\ r.userId = userId
       /\ r.packageName = data.packageName
       /\ r.newVersion = data.newVersion
  \/ \E j \in slackQueue : TripleOf(j) = <<userId, data.packageName, data.newVersion>>
  \/ \E j \in emailQueue : TripleOf(j) = <<userId, data.packageName, data.newVersion>>

\* C38: every user that a dispatchNotifications call has counted in notified has an
\* in-app record for (userId, packageName, newVersion), or a chat job or an email job
\* was enqueued for that user
C38_NotifiedWasDelivered ==
  \A p \in Calls :
    LET c == disp[p]
    IN c.pc # "idle" =>
         \A j \in Wanting(c.rows, c.k - 1, c.data) : Delivered(c.rows[j].user_id, c.data)

\* C39: the delay before a retry is the 1 s base at the first failure in a row, twice
\* the previous delay at each further one, and never more than 30 s
C39_BackoffFromBase ==
  lpc = "backoff" => delay = Min(1000 * 2^(retries - 1), 30000)

(***************************************************************************)
(* The in-memory LRU cache (src/apps/api/src/lib/cache.ts).  The Map of an  *)
(* LRUCache is the sequence of its entries [key, value, expiresAt] in       *)
(* insertion order.  The instance of the module is constructed with room    *)
(* for 10000 entries; the model runs the class with a small maxSize.  A    *)
(* call is made at the time of the previous call or a second after it.     *)
(***************************************************************************)
maxSize == 3
MaxAdvances == 2

\* the keys, values and lifetimes the cache is called with; "" is the empty string
CacheKeys == {"", "a", "b", "c"}
CacheValues == {"v1", "v2"}
TtlChoices == {1}

\* what get returns for a key without a live entry
Null == [hit |-> FALSE]
Hit(v) == [hit |-> TRUE, value |-> v]

\* Map.has, Map.get, Map.delete and Map.set: set on a key that is present keeps the
\* key's place in the order
MapHas(m, k) == \E i \in 1..Len(m) : m[i].key = k
MapGet(m, k) == m[CHOOSE i \in 1..Len(m) : m[i].key = k]
MapDelete(m, k) ==
  LET Other(e) == e.key # k
  IN SelectSeq(m, Other)
MapSet(m, k, e) ==
  IF MapHas(m, k) THEN [i \in 1..Len(m) |-> IF m[i].key = k THEN e ELSE m[i]]
  ELSE Append(m, e)
MapKeys(m) == {m[i].key : i \in 1..Len(m)}

\* if (oldest): the empty string is falsy
Truthy(k) == k # ""

\* get(key) at the time t: the Map after the call and the returned value
get(m, k, t) ==
  IF ~MapHas(m, k) THEN [map |-> m, ret |-> Null]
  ELSE LET e == MapGet(m, k)
       IN IF t > e.expiresAt THEN [map |-> MapDelete(m, k), ret |-> Null]
          ELSE [map |-> MapSet(MapDelete(m, k), k, e), ret |-> Hit(e.value)]

\* this.cache.keys().next().value is a key that if (oldest) lets through; an empty Map
\* has none
HasOldest(m) == Len(m) > 0 /\ Truthy(m[1].key)

\* set(key, value, ttlSeconds) at the time t
set(m, k, v, ttlSeconds, t) ==
  LET room == IF Len(m) >= maxSize /\ HasOldest(m) THEN MapDelete(m, m[1].key) ELSE m
  IN MapSet(room, k, [key |-> k, value |-> v, expiresAt |-> t + ttlSeconds * 1000])

\* the order of last use after a call that left the Map m: the keys that are gone
\* leave it, and a key that was got or set becomes the most recently used one
UsedAfter(u, m, touched) ==
  LET Stays(k) == k \in MapKeys(m) /\ k \notin touched
      last == {k \in touched : k \in MapKeys(m)}
  IN SelectSeq(u, Stays) \o (IF last = {} THEN <<>> ELSE <<CHOOSE k \in last : TRUE>>)

IdleCache ==
  /\ lruCache = <<>>
  /\ now = 0
  /\ used = <<>>

StartCache ==
  /\ lruCache = <<>>
  /\ now = 0
  /\ used = <<>>

\* Date.now() at a call: the time of the previous call, or a second later
Elapsed == {0, 1000}
CallTimes == {n * 1000 : n \in 0..MaxAdvances}
Times == {t \in CallTimes : t - now \in Elapsed}

\* cache.clear()
CacheClear(t) ==
  /\ t \in Times
  /\ now' = t
  /\ lruCache' = <<>>
  /\ used' = <<>>
  /\ UNCHANGED otherThanCache

\* cache.get(key)
CacheGet(k, t) ==
  /\ t \in Times
  /\ now' = t
  /\ lruCache' = get(lruCache, k, t).map
  /\ used' = UsedAfter(used, lruCache', IF get(lruCache, k, t).ret.hit THEN {k} ELSE {})
  /\ UNCHANGED otherThanCache

\* cache.set(key, value, ttlSeconds)
CacheSet(k, v, ttlSeconds, t) ==
  /\ t \in Times
  /\ now' = t
  /\ lruCache' = set(lruCache, k, v, ttlSeconds, t)
  /\ used' = UsedAfter(used, lruCache', {k})
  /\ UNCHANGED otherThanCache

\* cache.delete(key)
CacheDelete(k, t) ==
  /\ t \in Times
  /\ now' = t
  /\ lruCache' = MapDelete(lruCache, k)
  /\ used' = UsedAfter(used, lruCache', {})
  /\ UNCHANGED otherThanCache

NextCache ==
  \/ \E t \in CallTimes : CacheClear(t)
  \/ \E k \in CacheKeys, t \in CallTimes : CacheGet(k, t)
  \/ \E k \in CacheKeys, v \in CacheValues, ttlSeconds \in TtlChoices, t \in CallTimes :
       CacheSet(k, v, ttlSeconds, t)
  \/ \E k \in CacheKeys, t \in CallTimes : CacheDelete(k, t)

\* C40: when the cache is full and a new key is set, the one entry evicted is the least
\* recently used one, get and set of a key counting as a use; setting a key that is
\* present evicts nothing; and the size never exceeds maxSize
C40_EvictsLeastRecentlyUsed ==
  /\ [](Len(lruCache) <= maxSize)
  /\ [][\A k \in CacheKeys :
          (\E v \in CacheValues, ttlSeconds \in TtlChoices, t \in Times :
             CacheSet(k, v, ttlSeconds, t)) =>
            LET gone == MapKeys(lruCache) \ MapKeys(lruCache')
            IN /\ k \in MapKeys(lruCache) => gone = {}
               /\ (k \notin MapKeys(lruCache) /\ Len(lruCache) >= maxSize) =>
                    gone = {Head(used)}
               /\ (k \notin MapKeys(lruCache) /\ Len(lruCache) < maxSize) => gone = {}]_vars

(***************************************************************************)
(* Specifications: one per component, the other components idle            *)
(***************************************************************************)
InitResolver == StartResolver /\ IdleDispatch /\ IdleListener /\ IdleBackfill /\ IdleCache
SpecResolver == InitResolver /\ [][NextResolver]_vars

InitDispatch == StartDispatch /\ IdleResolver /\ IdleListener /\ IdleBackfill /\ IdleCache
SpecDispatch == InitDispatch /\ [][NextDispatch]_vars

InitListener == StartListener /\ IdleResolver /\ IdleDispatch /\ IdleBackfill /\ IdleCache
SpecListener == InitListener /\ [][NextListener]_vars

InitBackfill == StartBackfill /\ IdleResolver /\ IdleDispatch /\ IdleListener /\ IdleCache
SpecBackfill == InitBackfill /\ [][NextBackfill]_vars

InitCache == StartCache /\ IdleResolver /\ IdleDispatch /\ IdleListener /\ IdleBackfill
SpecCache == InitCache /\ [][NextCache]_vars

====
